---- MODULE Spec2Model ----
(***************************************************************************)
(* Model of generateCityLayout (src/src/utils/layoutEngine.ts): the        *)
(* recursive flattener, the force simulation with its collision passes and *)
(* the export to CityNode records; and of the parts of the application     *)
(* around it, each with a specification of its own: fetchRepo of           *)
(* useRepoFetcher (FetchSpec) and its transformation of a listing          *)
(* (BuildSpec), the hologram of CityScene (SceneSpec), AudioProvider       *)
(* (AudioSpec), useTreeSitter (SitterSpec) and extractDependencies         *)
(* (DepsSpec).  In each specification the variables of the other parts     *)
(* stand still.                                                            *)
(*                                                                         *)
(* Representation.                                                         *)
(*  - A string is a sequence of one-character strings ("a/b" is            *)
(*    <<"a","/","b">>); null and undefined are the value Null.             *)
(*  - Lengths are fixed-point integers in hundredths of a unit (5 is 500); *)
(*    forces and velocities are in ten-thousandths.  A value returned by   *)
(*    Math.random() is an integer r in 0..999 standing for r/1000.         *)
(*  - The input tree is a function from node numbers 1..N (1 is the root)  *)
(*    to records [name, type, loc, children]; loc is <<>> when absent and  *)
(*    <<n>> when present.                                                  *)
(***************************************************************************)
EXTENDS Integers, Sequences, FiniteSets, TLC

VARIABLES
    tree,        \* the input FileNode tree (read-only argument `root`)
    iterations,  \* the argument `iterations`
    rand,        \* the values Math.random() may return in this run
    nodes,       \* nodes: SimulationNode[]
    visited,     \* the input node each element of `nodes` was created from
    stack,       \* call stack of flatten: frames [node, id, next]
    pc,          \* position in generateCityLayout
    i,           \* outer loop counter of the simulation
    fi,          \* index of the node whose force is being computed
    k,           \* collision pass counter
    ci,          \* collision outer index  (nodes.forEach(node => ...
    cj,          \* collision inner index  (nodes.forEach(other => ...
    output,      \* the returned CityNode[]
    placed,      \* the positions flatten left behind (the initial placement)
    examined,    \* the pairs the collision pass under way has examined so far
    call,        \* which invocation of generateCityLayout is under way
    calls        \* how many invocations the caller makes

\* useRepoFetcher (src/src/hooks/useRepoFetcher.ts)
VARIABLES
    state,       \* the hook's FetcherState: [loading, error, data]
    cache,       \* the idb-keyval store: cache key -> <<>> or <<tree>>
    fetches      \* the fetchRepo calls started so far, in order of their start

\* The transformation of a tree listing inside fetchRepo (lines 86-127)
VARIABLES
    listing,     \* treeData.tree: the GitHubTreeItem[] of the response
    root,        \* the FileNode tree under construction
    item         \* how many items of the listing the forEach has handled

\* CityScene (src/unnamed/part_000)
VARIABLES
    layout,       \* the CityNode[] prop, with each node's codeSnippet
    selectedNode, \* index into layout of the selected node, 0 for null
    hologramCode, \* the code handed to CodeHologram
    pending       \* the onFetchCode promises not yet settled

\* AudioProvider (src/unnamed/part_002)
VARIABLES
    initialized, \* the state `initialized`
    synths,      \* how many hover, click and drone synths exist, drone notes started
    inits,       \* the initializeAudio calls waiting in `await Tone.start()`
    sounds       \* the sounds playHover and playClick have triggered

\* useTreeSitter (src/src/hooks/useTreeSitter.ts)
VARIABLES
    languagePath, \* the argument of the current render
    parser,       \* state `parser`: <<>> or <<path it was loaded for>>
    loading,      \* state `loading`
    error,        \* state `error`: <<>> or <<message>>
    loads         \* the init() runs not yet finished

\* extractDependencies (src/src/utils/parser.ts)
VARIABLES
    ast,          \* the syntax tree handed to extractDependencies
    walk,         \* call stack of traverse: frames [node, next]
    dependencies, \* the Set `dependencies`, in insertion order
    result        \* the returned array

layoutVars == <<tree, iterations, rand, nodes, visited, stack, pc, i, fi, k, ci, cj,
                output, placed, examined, call, calls>>
fetchVars  == <<state, cache, fetches>>
buildVars  == <<listing, root, item>>
sceneVars  == <<layout, selectedNode, hologramCode, pending>>
audioVars  == <<initialized, synths, inits, sounds>>
sitterVars == <<languagePath, parser, loading, error, loads>>
depsVars   == <<ast, walk, dependencies, result>>

\* Everything but the layout.
hookVars == <<fetchVars, buildVars, sceneVars, audioVars, sitterVars, depsVars>>

vars == <<layoutVars, hookVars>>

(***************************************************************************)
(* Program constants.                                                      *)
(***************************************************************************)
NodeCap == 400
FileRadius == 5
FolderRadius == 10
MinHeight == 2
MaxHeight == 100
JitterSpan == 100
RepulsionBase == 2000
PaddingBase == 15
CollisionPasses == 2
MonthMinutes == 43200
DefaultIterations == 50

(***************************************************************************)
(* Bounds of the model.                                                    *)
(***************************************************************************)
MaxIterations == 2
CapExtra == 100
MaxLoc == 201
MaxCalls == 2

Null == <<"null">>

\* JavaScript truthiness of a `string | null` value.
Truthy(s) == s # Null /\ s # <<>>

\* Hundredths of a unit.
U(x) == x * 100

Abs(x) == IF x < 0 THEN -x ELSE x
Max(a, b) == IF a >= b THEN a ELSE b
Min(a, b) == IF a <= b THEN a ELSE b

\* Division rounding toward zero (b > 0).
Div(a, b) == IF a >= 0 THEN a \div b ELSE -((-a) \div b)

(***************************************************************************)
(* Strings.                                                                *)
(***************************************************************************)
\* `${parentId}/${node.name}`
PathJoin(parentId, name) == parentId \o <<"/">> \o name

\* Position of the last "." of s, 0 when there is none.
LastDot(s) ==
    LET dots == {p \in 1..Len(s) : s[p] = "."}
    IN  IF dots = {} THEN 0 ELSE CHOOSE p \in dots : \A q \in dots : q <= p

\* s.split('.').pop(): the part of s after its last ".", s itself without one.
SplitPop(s) == SubSeq(s, LastDot(s) + 1, Len(s))

\* node.type === 'file' ? (node.id.split('.').pop() || 'txt') : 'folder'
ExtensionOf(type, id) ==
    IF type = "file"
    THEN IF SplitPop(id) # <<>> THEN SplitPop(id) ELSE <<"t","x","t">>
    ELSE <<"f","o","l","d","e","r">>

(***************************************************************************)
(* Vectors (THREE.Vector3) as <<x, y, z>>.                                 *)
(***************************************************************************)
Zero3 == <<0, 0, 0>>
VAdd(a, b) == <<a[1] + b[1], a[2] + b[2], a[3] + b[3]>>
VSub(a, b) == <<a[1] - b[1], a[2] - b[2], a[3] - b[3]>>
VScale(a, num, den) == <<Div(a[1] * num, den), Div(a[2] * num, den), Div(a[3] * num, den)>>

(***************************************************************************)
(* flatten                                                                 *)
(***************************************************************************)
\* nodes.find(n => n.id === id): index of the first match, 0 when none.
FindIndex(ns, id) ==
    LET hits == {p \in 1..Len(ns) : ns[p].id = id}
    IN  IF hits = {} THEN 0 ELSE CHOOSE p \in hits : \A q \in hits : p <= q

\* const id = parentId ? `${parentId}/${node.name}` : node.name
NodeId(parentId, name) ==
    IF Truthy(parentId) THEN PathJoin(parentId, name) ELSE name

\* const radius = isFile ? 5 : 10
RadiusOf(type) == IF type = "file" THEN U(FileRadius) ELSE U(FolderRadius)

\* const loc = node.loc || 0
LocOf(n) == IF n.loc = <<>> THEN 0 ELSE n.loc[1]

HeightOfMutNoFloor(type, loc) ==
    IF type = "file" THEN Min(Div(U(loc), 2), U(MaxHeight)) ELSE U(1)

\* const height = isFile ? Math.max(2, Math.min(loc * 0.5, 100)) : 1
HeightOf(type, loc) ==
    IF type = "file"
    THEN Max(U(MinHeight), Min(Div(U(loc), 2), U(MaxHeight)))
    ELSE U(1)

JitterMutVertical(r1, r2) ==
    <<Div((r1 - 500) * U(JitterSpan), 1000), U(1), Div((r2 - 500) * U(JitterSpan), 1000)>>

\* new THREE.Vector3((Math.random() - 0.5) * 100, 0, (Math.random() - 0.5) * 100)
Jitter(r1, r2) ==
    <<Div((r1 - 500) * U(JitterSpan), 1000), 0, Div((r2 - 500) * U(JitterSpan), 1000)>>

InitialPositionMutScatterAll(ns, parentId, r1, r2) ==
    IF Truthy(parentId) /\ FindIndex(ns, parentId) # 0
    THEN VAdd(ns[FindIndex(ns, parentId)].position, Jitter(r1, r2))
    ELSE Jitter(r1, r2)

\* Initial position of a record (lines 65-73): the origin, or near the record
\* found under parentId.
InitialPosition(ns, parentId, r1, r2) ==
    IF Truthy(parentId) /\ FindIndex(ns, parentId) # 0
    THEN VAdd(ns[FindIndex(ns, parentId)].position, Jitter(r1, r2))
    ELSE Zero3

\* The SimulationNode built for input node n under parentId.
SimNode(ns, n, parentId, r1, r2) ==
    [ id          |-> NodeId(parentId, n.name),
      type        |-> n.type,
      position    |-> InitialPosition(ns, parentId, r1, r2),
      velocity    |-> Zero3,
      radius      |-> RadiusOf(n.type),
      targetHeight|-> HeightOf(n.type, LocOf(n)),
      parentId    |-> parentId,
      childrenIds |-> <<>>,
      loc         |-> LocOf(n) ]

\* if (parentId) { const parent = nodes.find(...); if (parent) parent.childrenIds.push(id) }
LinkChild(ns, parentId, id) ==
    IF Truthy(parentId) /\ FindIndex(ns, parentId) # 0
    THEN [ns EXCEPT ![FindIndex(ns, parentId)].childrenIds = Append(@, id)]
    ELSE ns

\* The children of the node of a frame; frame 0 is generateCityLayout itself,
\* whose only call is flatten(root).
ChildrenOf(f) == IF f.node = 0 THEN <<1>> ELSE tree[f.node].children

Top == stack[Len(stack)]

CapReachedMutOffByOne == Len(nodes) > NodeCap

\* if (nodes.length >= 400) return;
CapReached == Len(nodes) >= NodeCap

NextChildMutReversed(f) == ChildrenOf(f)[Len(ChildrenOf(f)) + 1 - f.next]

\* The child the forEach of a frame hands to flatten next.
NextChild(f) == ChildrenOf(f)[f.next]

\* flatten(child, id) is called and returns at once: the cap is reached.
FlattenSkip ==
    /\ pc = "flatten"
    /\ Top.next <= Len(ChildrenOf(Top))
    /\ CapReached
    /\ stack' = [stack EXCEPT ![Len(stack)].next = @ + 1]
    /\ UNCHANGED <<tree, iterations, rand, nodes, visited, pc, i, fi, k, ci, cj,
                   output, placed, examined,
                   call, calls, hookVars>>

InputAfterFlattenMutDefaultLoc(t, c) == [t EXCEPT ![c].loc = <<LocOf(t[c])>>]

\* The input tree after flatten has visited its node c: flatten reads
\* node.name, type, loc, content, url and children and assigns to none.
InputAfterFlatten(t, c) == t

\* flatten(child, id) is called and admits the child: lines 50-94; the
\* forEach over its children is the new top frame.
FlattenEnter ==
    /\ pc = "flatten"
    /\ Top.next <= Len(ChildrenOf(Top))
    /\ ~CapReached
    /\ NextChild(Top) \in DOMAIN tree
    /\ \E r1 \in rand, r2 \in rand :
         LET c    == NextChild(Top)
             sim  == SimNode(nodes, tree[c], Top.id, r1, r2)
         IN  /\ nodes' = LinkChild(Append(nodes, sim), Top.id, sim.id)
             /\ visited' = Append(visited, c)
             /\ stack' = Append([stack EXCEPT ![Len(stack)].next = @ + 1],
                                [node |-> c, id |-> sim.id, next |-> 1])
             /\ tree' = InputAfterFlatten(tree, c)
    /\ UNCHANGED <<iterations, rand, pc, i, fi, k, ci, cj, output, placed, examined, call, calls, hookVars>>

\* flatten(root) is called without a root (undefined): the cap test passes
\* and line 50 reads node.name, which throws a TypeError out of
\* generateCityLayout.
FlattenThrow ==
    /\ pc = "flatten"
    /\ Top.next <= Len(ChildrenOf(Top))
    /\ ~CapReached
    /\ NextChild(Top) \notin DOMAIN tree
    /\ pc' = "threw"
    /\ UNCHANGED <<tree, iterations, rand, nodes, visited, stack, i, fi, k, ci, cj,
                   output, placed, examined,
                   call, calls, hookVars>>

\* The forEach of the top frame is exhausted: flatten returns to its caller,
\* another call of flatten.
FlattenReturn ==
    /\ pc = "flatten"
    /\ Len(stack) > 1
    /\ Top.next > Len(ChildrenOf(Top))
    /\ stack' = SubSeq(stack, 1, Len(stack) - 1)
    /\ UNCHANGED <<tree, iterations, rand, nodes, visited, pc, i, fi, k, ci, cj,
                   output, placed, examined,
                   call, calls, hookVars>>

\* flatten(root) returns to generateCityLayout, which reaches its loop.
FlattenDone ==
    /\ pc = "flatten"
    /\ Len(stack) = 1
    /\ Top.next > Len(ChildrenOf(Top))
    /\ stack' = <<>>
    /\ pc' = "loop"
    /\ i' = 0
    /\ placed' = [a \in 1..Len(nodes) |-> nodes[a].position]
    /\ UNCHANGED <<tree, iterations, rand, nodes, visited, fi, k, ci, cj, output, examined, call, calls, hookVars>>

(***************************************************************************)
(* Simulation constants (lines 109-117).                                   *)
(***************************************************************************)
RECURSIVE Log2Floor(_)
Log2Floor(n) == IF n < 2 THEN 0 ELSE 1 + Log2Floor(n \div 2)

RECURSIVE Pow2(_)
Pow2(e) == IF e = 0 THEN 1 ELSE 2 * Pow2(e - 1)

\* Math.log(n) in millionths, n >= 1: e * ln 2 + 2 * atanh((n - p) / (n + p))
\* with p = 2^e the largest power of two <= n, atanh by its series.
LnMicro(n) ==
    LET e  == Log2Floor(n)
        p  == Pow2(e)
        y  == ((n - p) * 1000000) \div (n + p)
        y2 == (y \div 1000) * (y \div 1000)
        y3 == ((y \div 1000) * y2) \div 1000
        y5 == (y3 * (y2 \div 100)) \div 10000
    IN  e * 693147 + 2 * (y + y3 \div 3 + y5 \div 5)

\* spacingMultiplier = Math.max(1, Math.log(nodeCount) * 0.5), in thousandths.
\* Math.log(0) is -Infinity.
SpacingMilli(n) == IF n = 0 THEN 1000 ELSE Max(1000, LnMicro(n) \div 2000)

\* REPULSION_STRENGTH = 2000 * spacingMultiplier, in units.
Repulsion(n) == (RepulsionBase * SpacingMilli(n)) \div 1000

\* PADDING = 15 * spacingMultiplier, in hundredths.
Padding(n) == (PaddingBase * SpacingMilli(n)) \div 10

(***************************************************************************)
(* Vector lengths.                                                         *)
(***************************************************************************)
RECURSIVE ISqrtIn(_, _, _)
ISqrtIn(n, lo, hi) ==
    IF lo >= hi THEN lo
    ELSE LET mid == (lo + hi + 1) \div 2
         IN  IF mid * mid <= n THEN ISqrtIn(n, mid, hi) ELSE ISqrtIn(n, lo, mid - 1)

\* floor(sqrt(n)) for 0 <= n < 2^31.
ISqrt(n) == ISqrtIn(n, 0, Min(n, 46340))

\* Vector3.lengthSq().  Beyond 200 units on an axis the value saturates
\* (at a value above every threshold it is compared with) so that the
\* squares stay below 2^31.
LengthSq(v) ==
    IF Abs(v[1]) > 20000 \/ Abs(v[2]) > 20000 \/ Abs(v[3]) > 20000
    THEN 2000000000
    ELSE v[1] * v[1] + v[2] * v[2] + v[3] * v[3]

\* Vector3.length()
Length(v) == ISqrt(LengthSq(v))

\* Vector3.normalize(): divideScalar(length() || 1); the result is a
\* direction in hundredths.  The length of a short vector is taken to two
\* more digits, so that its direction is as fine as that of a long one.
Normalize(v) ==
    IF LengthSq(v) = 0 THEN v
    ELSE IF LengthSq(v) < 200000
         THEN VScale(v, 10000, ISqrt(LengthSq(v) * 10000))
         ELSE VScale(v, 100, Length(v))

\* diff.y = 0
Flat(v) == <<v[1], 0, v[3]>>

(***************************************************************************)
(* Force phase (lines 121-163), one node per step.                         *)
(***************************************************************************)
\* node.id === other.id: the pair is skipped.
SamePair(ns, a, b) == ns[a].id = ns[b].id

\* const diff = subVectors(node.position, other.position); diff.y = 0
Diff(ns, a, b) == Flat(VSub(ns[a].position, ns[b].position))

\* const minDist = node.radius + other.radius + PADDING
MinDist(ns, a, b) == ns[a].radius + ns[b].radius + Padding(Len(ns))

\* distSq < 0.1
Degenerate(distSq) == distSq < 1000

\* diff.set(Math.random() - 0.5, 0, Math.random() - 0.5).normalize()
RandomDirection(d) == Normalize(<<d[1] - 500, 0, d[2] - 500>>)

\* REPULSION_STRENGTH / (distSq + 0.1), in hundredths.
Strength(n, distSq) == (Repulsion(n) * 100000) \div ((distSq + 1000) \div 10)

\* The others for which node a draws a random direction.
CloseOthers(ns, a) ==
    {b \in 1..Len(ns) : ~SamePair(ns, a, b) /\ Degenerate(LengthSq(Diff(ns, a, b)))}

\* The contribution of other b to the force on node a (lines 127-143), in
\* ten-thousandths; d is the pair of values Math.random() returns if asked.
RepulsionFrom(ns, a, b, d) ==
    IF SamePair(ns, a, b) THEN Zero3
    ELSE LET distSq == LengthSq(Diff(ns, a, b))
             diff   == IF Degenerate(distSq) THEN RandomDirection(d) ELSE Diff(ns, a, b)
         IN  IF distSq < MinDist(ns, a, b) * MinDist(ns, a, b) * 4
             THEN VScale(Normalize(diff), Strength(Len(ns), distSq), 1)
             ELSE Zero3

RECURSIVE RepulsionSum(_, _, _, _)
RepulsionSum(ns, a, b, draws) ==
    IF b > Len(ns) THEN Zero3
    ELSE VAdd(RepulsionFrom(ns, a, b, IF b \in DOMAIN draws THEN draws[b] ELSE <<500, 500>>),
              RepulsionSum(ns, a, b + 1, draws))

\* diff.multiplyScalar(ATTRACTION_STRENGTH), ATTRACTION_STRENGTH = 0.01 /
\* spacingMultiplier; diff in hundredths, the result in ten-thousandths.
Attract(n, diff) == VScale(diff, 1000, SpacingMilli(n))

\* Lines 147-159: toward the record found under parentId, or toward the
\* origin when parentId is falsy.
Attraction(ns, a) ==
    IF Truthy(ns[a].parentId)
    THEN IF FindIndex(ns, ns[a].parentId) # 0
         THEN Attract(Len(ns), Flat(VSub(ns[FindIndex(ns, ns[a].parentId)].position,
                                         ns[a].position)))
         ELSE Zero3
    ELSE Attract(Len(ns), Flat(VSub(Zero3, ns[a].position)))

\* The force accumulated for node a.
Force(ns, a, draws) == VAdd(RepulsionSum(ns, a, 1, draws), Attraction(ns, a))

\* node.velocity.add(force.multiplyScalar(TIME_STEP))
ForceNode ==
    /\ pc = "forces"
    /\ fi <= Len(nodes)
    /\ \E draws \in [CloseOthers(nodes, fi) -> rand \X rand] :
         nodes' = [nodes EXCEPT ![fi].velocity =
                       VAdd(@, VScale(Force(nodes, fi, draws), 1, 10))]
    /\ fi' = fi + 1
    /\ UNCHANGED <<tree, iterations, rand, visited, stack, pc, i, k, ci, cj, output, placed, examined,
                   call, calls, hookVars>>

(***************************************************************************)
(* Integration (lines 166-170).                                            *)
(***************************************************************************)
\* node.velocity.multiplyScalar(DAMPING);
\* node.position.add(node.velocity.multiplyScalar(TIME_STEP));
\* node.position.y = 0.  multiplyScalar changes the vector it is called on.
IntegratedMutInflate(n) ==
    LET v1 == VScale(n.velocity, 9, 10)
        v2 == VScale(v1, 1, 10)
        p  == VAdd(n.position, VScale(v2, 1, 100))
    IN  [n EXCEPT !.velocity = v2, !.position = <<p[1], 0, p[3]>>, !.radius = @ + 100]

Integrated(n) ==
    LET v1 == VScale(n.velocity, 9, 10)
        v2 == VScale(v1, 1, 10)
        p  == VAdd(n.position, VScale(v2, 1, 100))
    IN  [n EXCEPT !.velocity = v2, !.position = <<p[1], 0, p[3]>>]

Integrate ==
    /\ pc = "forces"
    /\ fi > Len(nodes)
    /\ nodes' = [a \in 1..Len(nodes) |-> Integrated(nodes[a])]
    /\ pc' = "collide"
    /\ k' = 0
    /\ ci' = 1
    /\ cj' = 1
    /\ examined' = <<>>
    /\ UNCHANGED <<tree, iterations, rand, visited, stack, i, fi, output, placed, call, calls, hookVars>>

(***************************************************************************)
(* Collision resolution (lines 174-191), one ordered pair per step.        *)
(***************************************************************************)
\* correction = diff.normalize().multiplyScalar(overlap * 0.5)
Correction(ns, a, b) ==
    VScale(Normalize(Diff(ns, a, b)), MinDist(ns, a, b) - Length(Diff(ns, a, b)), 200)

ExaminesMutUpperTriangle(ns, a, b) == ~SamePair(ns, a, b) /\ a < b

\* if (node.id === other.id) return;  -- every other pair goes on to the
\* distance test.
Examines(ns, a, b) == ~SamePair(ns, a, b)

CollidedMutImpulse(ns, a, b) ==
    IF ~Examines(ns, a, b) THEN ns
    ELSE IF Length(Diff(ns, a, b)) < MinDist(ns, a, b)
         THEN [ns EXCEPT ![a].position = VAdd(@, Correction(ns, a, b)),
                         ![b].position = VSub(@, Correction(ns, a, b)),
                         ![a].velocity = VAdd(@, Correction(ns, a, b)),
                         ![b].velocity = VSub(@, Correction(ns, a, b))]
         ELSE ns

\* The body of the inner forEach for node a and other b.
Collided(ns, a, b) ==
    IF ~Examines(ns, a, b) THEN ns
    ELSE IF Length(Diff(ns, a, b)) < MinDist(ns, a, b)
         THEN [ns EXCEPT ![a].position = VAdd(@, Correction(ns, a, b)),
                         ![b].position = VSub(@, Correction(ns, a, b))]
         ELSE ns

CollidePair ==
    /\ pc = "collide"
    /\ k < CollisionPasses
    /\ ci <= Len(nodes)
    /\ nodes' = Collided(nodes, ci, cj)
    /\ examined' = IF Examines(nodes, ci, cj) THEN Append(examined, <<ci, cj>>) ELSE examined
    /\ IF cj < Len(nodes)
       THEN cj' = cj + 1 /\ ci' = ci
       ELSE cj' = 1 /\ ci' = ci + 1
    /\ UNCHANGED <<tree, iterations, rand, visited, stack, pc, i, fi, k, output, placed, call, calls, hookVars>>

\* The outer forEach of a pass is exhausted: k++.
CollidePassEnd ==
    /\ pc = "collide"
    /\ k < CollisionPasses
    /\ ci > Len(nodes)
    /\ k' = k + 1
    /\ ci' = 1
    /\ cj' = 1
    /\ examined' = <<>>
    /\ UNCHANGED <<tree, iterations, rand, nodes, visited, stack, pc, i, fi, output, placed, call, calls, hookVars>>

\* k reaches 2: the iteration ends, i++.
IterationEnd ==
    /\ pc = "collide"
    /\ k >= CollisionPasses
    /\ i' = i + 1
    /\ pc' = "loop"
    /\ UNCHANGED <<tree, iterations, rand, nodes, visited, stack, fi, k, ci, cj, output, placed, examined,
                   call, calls, hookVars>>

(***************************************************************************)
(* The loop test of line 119.                                              *)
(***************************************************************************)
LoopContinuesMutInclusive == i <= iterations

\* i < iterations
LoopContinues == i < iterations

LoopEnter ==
    /\ pc = "loop"
    /\ LoopContinues
    /\ pc' = "forces"
    /\ fi' = 1
    /\ UNCHANGED <<tree, iterations, rand, nodes, visited, stack, i, k, ci, cj, output, placed, examined,
                   call, calls, hookVars>>

LoopExit ==
    /\ pc = "loop"
    /\ ~LoopContinues
    /\ pc' = "export"
    /\ UNCHANGED <<tree, iterations, rand, nodes, visited, stack, i, fi, k, ci, cj, output, placed, examined,
                   call, calls, hookVars>>

(***************************************************************************)
(* Export (lines 195-206).                                                 *)
(***************************************************************************)
\* Date.now() - Math.random() * 1000 * 60 * 60 * 24 * 30, in minutes relative
\* to Date.now().
LastModified(r) == -((r * MonthMinutes) \div 1000)

\* node.parentId || undefined
ParentOut(parentId) == IF Truthy(parentId) THEN parentId ELSE Null

SizeOfMutNoScale(n) == <<n.radius, n.targetHeight, n.radius>>

\* size: [node.radius * 1.5, node.targetHeight, node.radius * 1.5]
SizeOf(n) == <<Div(n.radius * 3, 2), n.targetHeight, Div(n.radius * 3, 2)>>

\* position: [node.position.x, node.targetHeight / 2, node.position.z]
PositionOf(n) == <<n.position[1], Div(n.targetHeight, 2), n.position[3]>>

CityNode(n, r) ==
    [ id           |-> n.id,
      position     |-> PositionOf(n),
      size         |-> SizeOf(n),
      type         |-> n.type,
      parentId     |-> ParentOut(n.parentId),
      loc          |-> n.loc,
      lastModified |-> LastModified(r),
      extension    |-> ExtensionOf(n.type, n.id) ]

Export ==
    /\ pc = "export"
    /\ \E r \in [1..Len(nodes) -> rand] :
         output' = [a \in 1..Len(nodes) |-> CityNode(nodes[a], r[a])]
    /\ pc' = "done"
    /\ UNCHANGED <<tree, iterations, rand, nodes, visited, stack, i, fi, k, ci, cj, placed, examined,
                   call, calls, hookVars>>

(***************************************************************************)
(* A further invocation.                                                   *)
(***************************************************************************)
\* const nodes: SimulationNode[] = []  -- a new array in every invocation.
FreshNodes == <<>>

\* The caller drops the result and calls generateCityLayout again with the
\* same arguments.
Restart ==
    /\ pc = "done"
    /\ call < calls
    /\ call' = call + 1
    /\ nodes' = FreshNodes
    /\ visited' = <<>>
    /\ stack' = << [node |-> 0, id |-> Null, next |-> 1] >>
    /\ pc' = "flatten"
    /\ i' = 0
    /\ fi' = 1
    /\ k' = 0
    /\ ci' = 1
    /\ cj' = 1
    /\ output' = <<>>
    /\ placed' = <<>>
    /\ examined' = <<>>
    /\ UNCHANGED <<tree, iterations, rand, calls, hookVars>>

(***************************************************************************)
(* Inputs.                                                                 *)
(***************************************************************************)
MkTree(shape, names, types, locs) ==
    [n \in 1..Len(shape) |->
        [name |-> names[n], type |-> types[n], loc |-> locs[n], children |-> shape[n]]]

\* Only folders have children.
TypesFor(shape) ==
    {t \in [1..Len(shape) -> {"file", "folder"}] :
        \A n \in 1..Len(shape) : shape[n] # <<>> => t[n] = "folder"}

NoLocs(shape) == [n \in 1..Len(shape) |-> <<>>]

Single == << <<>> >>
Pair   == << <<2>>, <<>> >>
Chain3 == << <<2>>, <<3>>, <<>> >>
Star3  == << <<3, 2>>, <<>>, <<>> >>
\* root [ 2, 3 [ 4 ] ]
Fork4  == << <<2, 3>>, <<>>, <<4>>, <<>> >>

NameSet == { <<>>, <<"a">>, <<"a", ".", "b">>, <<"a", ".">>, <<"a", "/", "a">> }

\* Small trees under every labelling with names of NameSet.
LabelRuns ==
    { [tree |-> MkTree(sh, nm, ty, NoLocs(sh)), iterations |-> 0, rand |-> {500}] :
        <<sh, nm, ty>> \in
            UNION { {sh} \X [1..Len(sh) -> NameSet] \X TypesFor(sh) :
                    sh \in {Single, Pair, Chain3, Star3} } }

\* Trees in which two records can get the same id.
ClashRuns ==
    { [tree |-> MkTree(Fork4, <<(<<"a">>)>> \o nm, ty, NoLocs(Fork4)),
       iterations |-> 0, rand |-> {0, 999}] :
        <<nm, ty>> \in [1..3 -> {<<"a">>, <<"a", "/", "a">>}] \X TypesFor(Fork4) }

\* One iteration over trees whose parent lookup can go astray: two sibling
\* folders of one name, and a root whose name is the empty string.
AttractionRuns ==
    { [tree |-> MkTree(Fork4, <<rt, <<"a">>, <<"a">>, <<"b">> >>,
                       <<"folder", "folder", "folder", "file">>, NoLocs(Fork4)),
       iterations |-> 1, rand |-> {0, 999}] : rt \in {<<"r">>, <<>>} }

\* No root at all: generateCityLayout(undefined).
EmptyRuns == { [tree |-> <<>>, iterations |-> it, rand |-> {500}] : it \in 0..MaxIterations }

\* root [ 2 [ 3 ], 4 [ 5 ] ]
Twins5 == << <<2, 4>>, <<3>>, <<>>, <<5>>, <<>> >>
Chain5 == << <<2>>, <<3>>, <<4>>, <<5>>, <<>> >>

\* Five records and the default iteration budget; every draw is the same, so
\* that in Twins5 records 2 and 4, and 3 and 5, start on each other, and in
\* Chain5 every record starts out of reach of the others.
BudgetRuns ==
    { [tree |-> MkTree(sh, <<(<<"r">>), <<"a">>, <<"b">>, <<"c">>, <<"d">> >>,
                       <<"folder", "folder", "folder", "folder", "file">>, NoLocs(sh)),
       iterations |-> DefaultIterations, rand |-> {999}] :
        sh \in {Twins5, Chain5} }

LocSet == { <<>> } \cup { <<l>> : l \in (-1)..MaxLoc }

\* A file, alone or under a root folder, with every loc of LocSet.
LocRuns ==
    { [tree |-> MkTree(Single, << <<"a", ".", "b">> >>, <<"file">>, <<l>>),
       iterations |-> it, rand |-> {500}] : l \in LocSet, it \in {0, MaxIterations} }
    \cup
    { [tree |-> MkTree(Pair, << <<"a">>, <<"b">> >>, <<"folder", "file">>, << <<>>, l >>),
       iterations |-> it, rand |-> {0, 999}] : l \in LocSet, it \in {0, 1} }

\* One or two records under every jitter and every random direction drawn
\* from {0, 0.5, 0.999}, and three records drawn from {0, 0.999}.
PhysicsRuns ==
    { [tree |-> MkTree(sh, [n \in 1..Len(sh) |-> <<"a">>], ty, NoLocs(sh)),
       iterations |-> it, rand |-> {0, 500, 999}] :
        <<sh, ty, it>> \in
            UNION { {sh} \X TypesFor(sh) \X (0..MaxIterations) : sh \in {Single, Pair} } }
    \cup
    { [tree |-> MkTree(sh, <<(<<"a">>), <<"b">>, <<"c">> >>, <<"folder", "folder", "file">>,
                       NoLocs(sh)),
       iterations |-> it, rand |-> {0, 999}] :
        sh \in {Chain3, Star3}, it \in 0..MaxIterations }

Digits == <<"0", "1", "2", "3", "4", "5", "6", "7", "8", "9">>

RECURSIVE Dec(_)
Dec(n) == IF n < 10 THEN <<Digits[n + 1]>> ELSE Dec(n \div 10) \o <<Digits[(n % 10) + 1]>>

\* The binary tree in heap order: the children of n are 2n and 2n+1.
HeapShape(N) ==
    [n \in 1..N |-> IF 2 * n + 1 <= N THEN <<2 * n, 2 * n + 1>>
                    ELSE IF 2 * n <= N THEN <<2 * n>> ELSE <<>>]

\* A root with w children 2..w+1; node m > w+1 is a child of node
\* 2 + (m - w - 2) % w.
WideShape(N, w) ==
    [n \in 1..N |->
        IF n = 1 THEN [j \in 1..Min(w, N - 1) |-> j + 1]
        ELSE IF n <= w + 1 /\ N >= w + n
             THEN [j \in 1..((N - (w + n)) \div w + 1) |-> w + n + (j - 1) * w]
             ELSE <<>>]

BigTree(shape) ==
    MkTree(shape, [n \in 1..Len(shape) |-> Dec(n)],
           [n \in 1..Len(shape) |-> IF shape[n] = <<>> /\ n % 2 = 1 THEN "file" ELSE "folder"],
           [n \in 1..Len(shape) |-> <<n>>])

\* Trees around and above the cap.
CapRuns ==
    { [tree |-> BigTree(sh), iterations |-> 0, rand |-> {500}] :
        sh \in UNION { {HeapShape(N), WideShape(N, 25)} :
                       N \in {NodeCap - 1, NodeCap, NodeCap + 1, NodeCap + CapExtra} } }

\* The runs whose caller invokes the layout again on the same tree.
RepeatedRuns == LabelRuns \cup AttractionRuns

Runs == LabelRuns \cup ClashRuns \cup LocRuns \cup PhysicsRuns \cup CapRuns
        \cup AttractionRuns \cup EmptyRuns \cup BudgetRuns

(***************************************************************************)
(* The parts of the application outside a specification stand still in it. *)
(***************************************************************************)
LayoutIdle ==
    /\ tree = <<>> /\ iterations = 0 /\ rand = {} /\ nodes = <<>> /\ visited = <<>>
    /\ stack = <<>> /\ pc = "idle" /\ i = 0 /\ fi = 1 /\ k = 0 /\ ci = 1 /\ cj = 1
    /\ output = <<>> /\ placed = <<>> /\ examined = <<>> /\ call = 1 /\ calls = 1

FetchIdle == state = <<>> /\ cache = <<>> /\ fetches = <<>>

BuildIdle == listing = <<>> /\ root = <<>> /\ item = 0

SceneIdle == layout = <<>> /\ selectedNode = 0 /\ hologramCode = <<>> /\ pending = {}

AudioIdle == initialized = FALSE /\ synths = <<>> /\ inits = <<>> /\ sounds = <<>>

SitterIdle ==
    languagePath = <<>> /\ parser = <<>> /\ loading = FALSE /\ error = <<>> /\ loads = {}

DepsIdle == ast = <<>> /\ walk = <<>> /\ dependencies = <<>> /\ result = <<>>

HooksIdle == FetchIdle /\ BuildIdle /\ SceneIdle /\ AudioIdle /\ SitterIdle /\ DepsIdle

(***************************************************************************)
(* Specification of generateCityLayout.                                    *)
(***************************************************************************)
Init ==
    /\ \E run \in Runs :
         /\ tree = run.tree
         /\ iterations = run.iterations
         /\ rand = run.rand
         /\ calls = IF run \in RepeatedRuns THEN MaxCalls ELSE 1
    /\ nodes = <<>>
    /\ visited = <<>>
    /\ stack = << [node |-> 0, id |-> Null, next |-> 1] >>
    /\ pc = "flatten"
    /\ i = 0
    /\ fi = 1
    /\ k = 0
    /\ ci = 1
    /\ cj = 1
    /\ output = <<>>
    /\ placed = <<>>
    /\ examined = <<>>
    /\ call = 1
    /\ HooksIdle

Next ==
    \/ FlattenSkip
    \/ FlattenEnter
    \/ FlattenThrow
    \/ FlattenReturn
    \/ FlattenDone
    \/ LoopEnter
    \/ ForceNode
    \/ Integrate
    \/ CollidePair
    \/ CollidePassEnd
    \/ IterationEnd
    \/ LoopExit
    \/ Export
    \/ Restart

Spec == Init /\ [][Next]_vars

(***************************************************************************)
(* useRepoFetcher (src/src/hooks/useRepoFetcher.ts).                       *)
(*                                                                         *)
(* A FileNode tree is a sequence of records [name, type, loc, children]    *)
(* as above, the root first; an optional value is <<>> when absent and     *)
(* <<v>> when present.  The `url` of a file node and the request headers   *)
(* (the token) take no part in what follows and are left out.              *)
(***************************************************************************)
\* The first position at which sub occurs in s, 0 when it does not.
IndexOf(s, sub) ==
    LET hits == {p \in 1..(Len(s) - Len(sub) + 1) : SubSeq(s, p, p + Len(sub) - 1) = sub}
    IN  IF hits = {} THEN 0 ELSE CHOOSE p \in hits : \A q \in hits : p <= q

\* s.replace(sub, ''): the first occurrence of sub is taken out.
RemoveFirst(s, sub) ==
    IF IndexOf(s, sub) = 0 THEN s
    ELSE SubSeq(s, 1, IndexOf(s, sub) - 1) \o SubSeq(s, IndexOf(s, sub) + Len(sub), Len(s))

\* s.replace(/\/$/, '')
DropTrailingSlash(s) ==
    IF Len(s) > 0 /\ s[Len(s)] = "/" THEN SubSeq(s, 1, Len(s) - 1) ELSE s

\* s.split('/')
RECURSIVE Split(_)
Split(s) ==
    IF IndexOf(s, <<"/">>) = 0 THEN <<s>>
    ELSE <<SubSeq(s, 1, IndexOf(s, <<"/">>) - 1)>>
            \o Split(SubSeq(s, IndexOf(s, <<"/">>) + 1, Len(s)))

GitHubPrefix == <<"h", "t", "t", "p", "s", ":", "/", "/", "g", "i", "t", "h", "u", "b", ".", "c", "o", "m", "/">>

\* Lines 32-33: the parts of the cleaned URL.
UrlParts(repoUrl) == Split(DropTrailingSlash(RemoveFirst(repoUrl, GitHubPrefix)))

\* parts[0] and parts[1]; undefined is <<>>, as falsy as the empty string.
OwnerOf(repoUrl) == UrlParts(repoUrl)[1]
RepoOf(repoUrl) == IF Len(UrlParts(repoUrl)) >= 2 THEN UrlParts(repoUrl)[2] ELSE <<>>

\* !owner || !repo
InvalidUrl(repoUrl) == OwnerOf(repoUrl) = <<>> \/ RepoOf(repoUrl) = <<>>

\* `repo-city-v1-${owner}-${repo}`
CacheKey(owner, repo) == <<"r", "e", "p", "o", "-", "c", "i", "t", "y", "-", "v", "1", "-">> \o owner \o <<"-">> \o repo

InvalidUrlMessage == "Invalid Repository URL. Format: owner/repo"
RateLimitMessage == "API Rate Limit Exceeded. Please provide a Token."
RepoInfoMessage == "Failed to fetch repo info: "
FileTreeMessage == "Failed to fetch file tree: "

\* repoRes.status === 403 || repoRes.status === 429
RateLimited(status) == status = 403 \/ status = 429

\* response.ok
Ok(status) == status >= 200 /\ status <= 299

\* The message of the error thrown for a response that is not ok.
NotOkMessage(status, otherwise) ==
    IF RateLimited(status) THEN RateLimitMessage ELSE otherwise

(***************************************************************************)
(* The transformation of the listing (lines 86-127).                       *)
(***************************************************************************)
\* const root: FileNode = { name: repo, type: 'folder', children: [] }
NewRoot(repo) == << [name |-> repo, type |-> "folder", loc |-> <<>>, children |-> <<>>] >>

FindFolderMutNone(t, parent, name) == 0

\* parent.children.find(c => c.name === name && c.type === 'folder'): the
\* node found, 0 for undefined.
FindFolder(t, parent, name) ==
    LET hits == {p \in 1..Len(t[parent].children) :
                    /\ t[t[parent].children[p]].name = name
                    /\ t[t[parent].children[p]].type = "folder"}
    IN  IF hits = {} THEN 0
        ELSE t[parent].children[CHOOSE p \in hits : \A q \in hits : p <= q]

\* parent.children.push(node)
PushChild(t, parent, node) ==
    [Append(t, node) EXCEPT ![parent].children = Append(@, Len(t) + 1)]

\* findOrCreateFolder(parent, name): the tree afterwards and the folder.
FindOrCreateFolder(t, parent, name) ==
    IF FindFolder(t, parent, name) # 0
    THEN [t |-> t, at |-> FindFolder(t, parent, name)]
    ELSE [t |-> PushChild(t, parent,
                          [name |-> name, type |-> "folder", loc |-> <<>>, children |-> <<>>]),
          at |-> Len(t) + 1]

\* parts.forEach(part => { currentDir = findOrCreateFolder(currentDir, part) })
RECURSIVE Descend(_, _, _, _)
Descend(t, currentDir, parts, j) ==
    IF j > Len(parts) THEN [t |-> t, at |-> currentDir]
    ELSE LET f == FindOrCreateFolder(t, currentDir, parts[j])
         IN  Descend(f.t, f.at, parts, j + 1)

\* loc: item.size ? Math.ceil(item.size / 30) : 0
LocOfSize(size) ==
    IF size = <<>> \/ size = <<0>> THEN 0 ELSE (size[1] + 29) \div 30

\* The body of the forEach of line 103 for one item.
AddItem(t, it) ==
    LET parts    == Split(it.path)
        fileName == parts[Len(parts)]
        dir      == Descend(t, 1, SubSeq(parts, 1, Len(parts) - 1), 1)
    IN  IF it.type = "blob"
        THEN PushChild(dir.t, dir.at,
                       [name |-> fileName, type |-> "file",
                        loc |-> <<LocOfSize(it.size)>>, children |-> <<>>])
        ELSE IF it.type = "tree"
             THEN FindOrCreateFolder(dir.t, dir.at, fileName).t
             ELSE dir.t

\* The whole forEach over the first n items.
RECURSIVE Transformed(_, _, _)
Transformed(repo, items, n) ==
    IF n = 0 THEN NewRoot(repo) ELSE AddItem(Transformed(repo, items, n - 1), items[n])

(***************************************************************************)
(* fetchRepo (lines 27-136).  A call is a record [url, pc, log, status,    *)
(* outcome, tree, settled]: pc is the await it is suspended at ("get",     *)
(* "repo", "tree", "set") or "done"; log lists the cache and network       *)
(* operations the call has issued; status is the status of the last        *)
(* response it received (0 before any); outcome names the path it finished *)
(* by; settled is the state it set when it finished.                       *)
(***************************************************************************)
MaxFetches == 2

\* setState(prev => ({ ...prev, loading: true, error: null }))
Started(st) == [st EXCEPT !.loading = TRUE, !.error = <<>>]

\* setState({ loading: false, error: null, data })
Loaded(data) == [loading |-> FALSE, error |-> <<>>, data |-> <<data>>]

CaughtMutKeepData(st, message) == [st EXCEPT !.loading = FALSE, !.error = <<message>>]

\* setState({ loading: false, error: err.message, data: null })
Caught(st, message) == [loading |-> FALSE, error |-> <<message>>, data |-> <<>>]

KeyOfMutShared(c) == CacheKey(<<"o">>, <<"r">>)

\* Line 42: const cacheKey = `repo-city-v1-${owner}-${repo}`
KeyOf(c) == CacheKey(OwnerOf(fetches[c].url), RepoOf(fetches[c].url))

\* The call c finishes and sets the state st.
Settle(c, status, st, outcome) ==
    /\ state' = st
    /\ fetches' = [fetches EXCEPT ![c].pc = "done", ![c].status = status,
                                  ![c].outcome = outcome, ![c].settled = <<st>>]

\* The call c goes on to its next await, having issued the operation op.
Await(c, status, op) ==
    /\ fetches' = [fetches EXCEPT ![c].pc = op, ![c].status = status,
                                  ![c].log = Append(@, op)]
    /\ UNCHANGED state

\* The arguments and answers of the environment.
Urls ==
    { <<"o", "/", "r">>,
      <<"h", "t", "t", "p", "s", ":", "/", "/", "g", "i", "t", "h", "u", "b", ".", "c", "o", "m", "/", "o", "/", "r", "/">>,
      <<"p", "/", "q">>,
      <<"o">>,
      <<>> }

Statuses == {200, 403, 404, 429}

Listings ==
    { << [path |-> <<"a">>, type |-> "blob", size |-> <<31>>] >>,
      << [path |-> <<"d", "/", "b">>, type |-> "blob", size |-> <<>>],
         [path |-> <<"d">>, type |-> "tree", size |-> <<>>] >> }

\* The messages of the exceptions the awaited operations can throw.
Thrown == {"Failed to fetch"}

Keys == {CacheKey(OwnerOf(u), RepoOf(u)) : u \in {v \in Urls : ~InvalidUrl(v)}}

\* The trees a call for the repository can have built.
TreesOf(repo) == {Transformed(repo, items, Len(items)) : items \in Listings}

Trees == UNION {TreesOf(RepoOf(u)) : u \in {v \in Urls : ~InvalidUrl(v)}}

besidesFetch == <<layoutVars, buildVars, sceneVars, audioVars, sitterVars, depsVars>>

\* Lines 28-45: up to the first await.  An invalid URL throws before it and
\* is caught at once.
FetchStart ==
    /\ Len(fetches) < MaxFetches
    /\ \E repoUrl \in Urls :
         LET new == [url |-> repoUrl, pc |-> "get", log |-> <<"get">>, status |-> 0,
                     outcome |-> "",
                     tree |-> <<>>, settled |-> <<>>]
         IN  IF InvalidUrl(repoUrl)
             THEN LET st == Caught(Started(state), InvalidUrlMessage)
                  IN  /\ state' = st
                      /\ fetches' = Append(fetches, [new EXCEPT !.pc = "done", !.log = <<>>,
                                                            !.outcome = "invalid",
                                                            !.settled = <<st>>])
             ELSE /\ state' = Started(state)
                  /\ fetches' = Append(fetches, new)
    /\ UNCHANGED <<cache, besidesFetch>>

\* Lines 45-60: get(cacheKey) resolves; a hit ends the call, a miss sends
\* the repository-info request.
CacheAnswer ==
    /\ \E c \in 1..Len(fetches) :
         /\ fetches[c].pc = "get"
         /\ IF cache[KeyOf(c)] # <<>>
            THEN Settle(c, 0, Loaded(cache[KeyOf(c)][1]), "hit")
            ELSE Await(c, 0, "repo")
    /\ UNCHANGED <<cache, besidesFetch>>

\* Lines 60-71: the repository-info response arrives.
RepoAnswer ==
    /\ \E c \in 1..Len(fetches), status \in Statuses :
         /\ fetches[c].pc = "repo"
         /\ IF Ok(status)
            THEN Await(c, status, "tree")
            ELSE Settle(c, status, Caught(state, NotOkMessage(status, RepoInfoMessage)), "repo")
    /\ UNCHANGED <<cache, besidesFetch>>

\* Lines 71-130: the tree response arrives; the listing is transformed and
\* set(cacheKey, root) is called.
TreeAnswer ==
    /\ \E c \in 1..Len(fetches), status \in Statuses, items \in Listings :
         /\ fetches[c].pc = "tree"
         /\ IF Ok(status)
            THEN /\ fetches' = [fetches EXCEPT
                                  ![c].pc = "set", ![c].status = status,
                                  ![c].log = Append(@, "set"),
                                  ![c].tree = <<Transformed(RepoOf(fetches[c].url), items,
                                                            Len(items))>>]
                 /\ UNCHANGED state
            ELSE Settle(c, status, Caught(state, NotOkMessage(status, FileTreeMessage)),
                        "tree")
    /\ UNCHANGED <<cache, besidesFetch>>

\* Lines 130-131: set(cacheKey, root) resolves.
CacheStored ==
    /\ \E c \in 1..Len(fetches) :
         /\ fetches[c].pc = "set"
         /\ cache' = [cache EXCEPT ![KeyOf(c)] = fetches[c].tree]
         /\ Settle(c, fetches[c].status, Loaded(fetches[c].tree[1]), "ok")
    /\ UNCHANGED besidesFetch

\* Lines 133-135: the awaited operation rejects (get, fetch, json or set).
FetchThrows ==
    /\ \E c \in 1..Len(fetches), message \in Thrown :
         /\ fetches[c].pc \in {"get", "repo", "tree", "set"}
         /\ Settle(c, fetches[c].status, Caught(state, message), "thrown")
    /\ UNCHANGED <<cache, besidesFetch>>

FetchInit ==
    /\ state = [loading |-> FALSE, error |-> <<>>, data |-> <<>>]
    /\ cache \in [Keys -> {<<>>} \cup {<<t>> : t \in Trees}]
    /\ \A u \in Urls : ~InvalidUrl(u) =>
           cache[CacheKey(OwnerOf(u), RepoOf(u))] \in {<<>>} \cup {<<t>> : t \in TreesOf(RepoOf(u))}
    /\ fetches = <<>>
    /\ LayoutIdle /\ BuildIdle /\ SceneIdle /\ AudioIdle /\ SitterIdle /\ DepsIdle

FetchNext ==
    \/ FetchStart
    \/ CacheAnswer
    \/ RepoAnswer
    \/ TreeAnswer
    \/ CacheStored
    \/ FetchThrows

FetchSpec == FetchInit /\ [][FetchNext]_vars

(***************************************************************************)
(* The transformation of a listing, item by item: listing is treeData.tree,*)
(* root the tree built so far, item the number of items the forEach of     *)
(* line 103 has handled.                                                   *)
(***************************************************************************)
MaxItems == 3

\* Entries of a recursive tree listing: blobs, trees, a submodule (type
\* commit), and a blob whose folder has no entry of its own.
Entries ==
    { [path |-> <<"a">>, type |-> "blob", size |-> <<31>>],
      [path |-> <<"d">>, type |-> "tree", size |-> <<>>],
      [path |-> <<"d", "/", "b">>, type |-> "blob", size |-> <<0>>],
      [path |-> <<"d", "/", "e">>, type |-> "tree", size |-> <<>>],
      [path |-> <<"d", "/", "e", "/", "a">>, type |-> "blob", size |-> <<60>>],
      [path |-> <<"f", "/", "a">>, type |-> "blob", size |-> <<>>],
      [path |-> <<"c">>, type |-> "commit", size |-> <<>>] }

\* The listings of n entries, in every order; a path is listed once.
Arrangements(n) ==
    {s \in [1..n -> Entries] : \A p, q \in 1..n : p # q => s[p].path # s[q].path}

besidesBuild == <<layoutVars, fetchVars, sceneVars, audioVars, sitterVars, depsVars>>

\* Lines 103-127: the forEach handles the next item.
AddNext ==
    /\ item < Len(listing)
    /\ root' = AddItem(root, listing[item + 1])
    /\ item' = item + 1
    /\ UNCHANGED <<listing, besidesBuild>>

BuildInit ==
    /\ listing \in UNION {Arrangements(n) : n \in 0..MaxItems}
    /\ root = NewRoot(<<"r">>)
    /\ item = 0
    /\ LayoutIdle /\ FetchIdle /\ SceneIdle /\ AudioIdle /\ SitterIdle /\ DepsIdle

BuildNext == AddNext

BuildSpec == BuildInit /\ [][BuildNext]_vars

(***************************************************************************)
(* CityScene (part_000, lines 653-862).  layout is the prop, a sequence of *)
(* nodes [codeSnippet, url] with "" for an absent or empty snippet and url *)
(* telling whether the node has one; selectedNode is an index of layout or *)
(* 0 for null; hologramCode is the text handed to CodeHologram; pending    *)
(* counts, for each node, the onFetchCode promises not yet settled.        *)
(***************************************************************************)
MaxPending == 2

LoadingText == "// Loading content from GitHub..."
NoContentText == "// No content available locally."
FailedText == "// Failed to fetch: Not Found"

\* What res.text() can give for the node: the file's text, or nothing for
\* an empty file.
TextsOf(n) == {"", IF n = 1 THEN "text 1" ELSE IF n = 2 THEN "text 2" ELSE "text 3"}

\* fetchFileContent (parser.ts 136-153) resolves with the text or with the
\* failure comment; it never rejects.
AnswersOf(n) == TextsOf(n) \cup {FailedText}

SnippetOf(n) == IF n = 1 THEN "snippet 1" ELSE IF n = 2 THEN "snippet 2" ELSE "snippet 3"

Layouts ==
    {l \in [1..3 -> [codeSnippet : {"", "snippet 1", "snippet 2", "snippet 3"},
                     url : BOOLEAN]] :
        \A n \in 1..3 : l[n].codeSnippet \in {"", SnippetOf(n)}}

Pending == {n \in 1..Len(layout) : pending[n] > 0}

RECURSIVE Sum(_, _)
Sum(f, n) == IF n = 0 THEN 0 ELSE f[n] + Sum(f, n - 1)

\* The effect of lines 665-682 for the selected node n: the text it sets
\* and whether it calls onFetchCode.
SetByEffect(n) ==
    IF layout[n].codeSnippet # "" THEN layout[n].codeSnippet
    ELSE IF layout[n].url THEN LoadingText
    ELSE NoContentText

FetchedByEffect(n) == layout[n].codeSnippet = "" /\ layout[n].url

RunEffect(n) ==
    /\ hologramCode' = SetByEffect(n)
    /\ pending' = IF FetchedByEffect(n) THEN [pending EXCEPT ![n] = @ + 1] ELSE pending
    /\ FetchedByEffect(n) => Sum(pending, Len(layout)) < MaxPending

besidesScene == <<layoutVars, fetchVars, buildVars, audioVars, sitterVars, depsVars>>

\* Lines 838-840: onSelect sets the selected node, and the effect runs for it.
Select ==
    /\ \E index \in 1..Len(layout) :
         /\ index # selectedNode
         /\ selectedNode' = index
         /\ RunEffect(index)
    /\ UNCHANGED <<layout, besidesScene>>

\* Line 857: onClose sets the selected node to null; the effect runs and
\* does nothing.
Close ==
    /\ selectedNode # 0
    /\ selectedNode' = 0
    /\ UNCHANGED <<layout, hologramCode, pending, besidesScene>>

\* Line 682: the parent rendered again and onFetchCode is a new function, so
\* the effect runs again for the node that is selected.
EffectAgain ==
    /\ selectedNode # 0
    /\ RunEffect(selectedNode)
    /\ UNCHANGED <<layout, selectedNode, besidesScene>>

\* Lines 671-675: a promise of onFetchCode for node n resolves.
FetchResolves ==
    /\ \E n \in Pending : \E code \in AnswersOf(n) :
         /\ hologramCode' = code
         /\ layout' = [layout EXCEPT ![n].codeSnippet = code]
         /\ pending' = [pending EXCEPT ![n] = @ - 1]
    /\ UNCHANGED <<selectedNode, besidesScene>>

SceneInit ==
    /\ layout \in Layouts
    /\ selectedNode = 0
    /\ hologramCode = ""
    /\ pending = [n \in 1..3 |-> 0]
    /\ LayoutIdle /\ FetchIdle /\ BuildIdle /\ AudioIdle /\ SitterIdle /\ DepsIdle

SceneNext ==
    \/ Select
    \/ Close
    \/ EffectAgain
    \/ FetchResolves

SceneSpec == SceneInit /\ [][SceneNext]_vars

(***************************************************************************)
(* AudioProvider (part_002, lines 23-105).  initialized is the state of    *)
(* line 24; synths counts how often each synth was created and how often   *)
(* the drone note was started (a ref is non-null once its synth was        *)
(* created); inits holds, for every initializeAudio call, where it is:     *)
(* "await" at Tone.start(), "done", "returned" at line 41 or "failed";     *)
(* sounds lists the notes triggered by playHover and playClick.            *)
(***************************************************************************)
MaxInits == 2
MaxSounds == 2

Notes == {"C6", "E6", "G6", "A6"}

besidesAudio == <<layoutVars, fetchVars, buildVars, sceneVars, sitterVars, depsVars>>

\* Lines 40-43: if (initialized) return; await Tone.start()
InitializeAudio ==
    /\ Len(inits) < MaxInits
    /\ inits' = Append(inits, IF initialized THEN "returned" ELSE "await")
    /\ UNCHANGED <<initialized, synths, sounds, besidesAudio>>

\* Lines 44-80: Tone.start() resolved for a call; it creates the three
\* synths, starts the drone and sets initialized.
ToneStarted ==
    /\ \E c \in 1..Len(inits) :
         /\ inits[c] = "await"
         /\ inits' = [inits EXCEPT ![c] = "done"]
    /\ synths' = [hover |-> synths.hover + 1, click |-> synths.click + 1,
                  drone |-> synths.drone + 1, attacks |-> synths.attacks + 1]
    /\ initialized' = TRUE
    /\ UNCHANGED <<sounds, besidesAudio>>

\* Line 43: Tone.start() rejected; the call ends there.
ToneFails ==
    /\ \E c \in 1..Len(inits) :
         /\ inits[c] = "await"
         /\ inits' = [inits EXCEPT ![c] = "failed"]
    /\ UNCHANGED <<initialized, synths, sounds, besidesAudio>>

\* Lines 83-89
PlayHover ==
    /\ Len(sounds) < MaxSounds
    /\ \E note \in Notes :
         sounds' = IF ~initialized \/ synths.hover = 0 THEN sounds
                   ELSE Append(sounds, note)
    /\ UNCHANGED <<initialized, synths, inits, besidesAudio>>

\* Lines 91-94
PlayClick ==
    /\ Len(sounds) < MaxSounds
    /\ sounds' = IF ~initialized \/ synths.click = 0 THEN sounds
                 ELSE Append(sounds, "16n")
    /\ UNCHANGED <<initialized, synths, inits, besidesAudio>>

AudioInit ==
    /\ initialized = FALSE
    /\ synths = [hover |-> 0, click |-> 0, drone |-> 0, attacks |-> 0]
    /\ inits = <<>>
    /\ sounds = <<>>
    /\ LayoutIdle /\ FetchIdle /\ BuildIdle /\ SceneIdle /\ SitterIdle /\ DepsIdle

AudioNext ==
    \/ InitializeAudio
    \/ ToneStarted
    \/ ToneFails
    \/ PlayHover
    \/ PlayClick

AudioSpec == AudioInit /\ [][AudioNext]_vars

(***************************************************************************)
(* useTreeSitter (lines 4-55).  languagePath is the argument of the last   *)
(* render; parser is <<>> for null or <<p>> for the parser whose language  *)
(* was loaded from p; error is <<>> for null or <<p>> for the error of the *)
(* load of p; loads holds, for every run of the effect, its path and       *)
(* whether init() is running ("run"), has set the parser ("ok") or has     *)
(* been caught ("caught").                                                 *)
(***************************************************************************)
MaxLoads == 3

Paths == {"/tree-sitter-javascript.wasm", "/tree-sitter-cpp.wasm", "/missing.wasm"}

besidesSitter == <<layoutVars, fetchVars, buildVars, sceneVars, audioVars, depsVars>>

\* Lines 10-52: the hook is rendered with another path and the effect runs
\* init() for it.
ChangePath ==
    /\ Len(loads) < MaxLoads
    /\ \E path \in Paths \ {languagePath} :
         /\ languagePath' = path
         /\ loads' = Append(loads, [path |-> path, pc |-> "run"])
    /\ UNCHANGED <<parser, loading, error, besidesSitter>>

\* Lines 22-43: every await of a run succeeded.
LoadSucceeds ==
    /\ \E c \in 1..Len(loads) :
         /\ loads[c].pc = "run"
         /\ parser' = <<loads[c].path>>
         /\ loads' = [loads EXCEPT ![c].pc = "ok"]
    /\ loading' = FALSE
    /\ UNCHANGED <<languagePath, error, besidesSitter>>

\* Lines 44-48: an await of a run rejected or the response was not ok.
LoadFails ==
    /\ \E c \in 1..Len(loads) :
         /\ loads[c].pc = "run"
         /\ error' = <<loads[c].path>>
         /\ loads' = [loads EXCEPT ![c].pc = "caught"]
    /\ loading' = FALSE
    /\ UNCHANGED <<languagePath, parser, besidesSitter>>

\* Lines 5-8 and the effect of the first render.
SitterInit ==
    /\ languagePath \in Paths
    /\ parser = <<>>
    /\ loading = TRUE
    /\ error = <<>>
    /\ loads = <<[path |-> languagePath, pc |-> "run"]>>
    /\ LayoutIdle /\ FetchIdle /\ BuildIdle /\ SceneIdle /\ AudioIdle /\ DepsIdle

SitterNext ==
    \/ ChangePath
    \/ LoadSucceeds
    \/ LoadFails

SitterSpec == SitterInit /\ [][SitterNext]_vars

(***************************************************************************)
(* extractDependencies (parser.ts, lines 18-73).  ast is the syntax tree   *)
(* as a sequence of nodes [type, text, children], a child being [field,    *)
(* node] with the field name it has in its parent ("" for none) and the    *)
(* index of the node; node 1 is the root.  walk is the stack of nodes      *)
(* traverse() has still to visit, dependencies the Set in insertion order, *)
(* result <<>> before the return and <<array>> after it.                   *)
(***************************************************************************)
MaxStatements == 3

Leaf(type, text) == [type |-> type, text |-> text, children |-> <<>>]

Inner(type, children) == [type |-> type, text |-> <<>>, children |-> children]

Kid(field, node) == [field |-> field, node |-> node]

Quoted(q, s) == <<q>> \o s \o <<q>>

RequireText == <<"r", "e", "q", "u", "i", "r", "e">>

\* import x from <q>s<q>
ImportOf(q, s) ==
    << Inner("import_statement", <<Kid("", 2), Kid("source", 3)>>),
       Leaf("import", <<>>),
       Leaf("string", Quoted(q, s)) >>

\* f(<q>s<q>)
CallOf(f, q, s) ==
    << Inner("call_expression", <<Kid("function", 2), Kid("arguments", 3)>>),
       Leaf("identifier", f),
       Inner("arguments", <<Kid("", 4), Kid("", 5), Kid("", 6)>>),
       Leaf("(", <<>>),
       Leaf("string", Quoted(q, s)),
       Leaf(")", <<>>) >>

\* require(x, "c", 'e')
RequireSecond ==
    << Inner("call_expression", <<Kid("function", 2), Kid("arguments", 3)>>),
       Leaf("identifier", RequireText),
       Inner("arguments", <<Kid("", 4), Kid("", 5), Kid("", 6), Kid("", 7), Kid("", 8)>>),
       Leaf("(", <<>>),
       Leaf("identifier", <<"x">>),
       Leaf("string", Quoted("\"", <<"c">>)),
       Leaf("string", Quoted("'", <<"e">>)),
       Leaf(")", <<>>) >>

\* foo(require('d'))
RequireNested ==
    << Inner("call_expression", <<Kid("function", 2), Kid("arguments", 3)>>),
       Leaf("identifier", <<"f", "o", "o">>),
       Inner("arguments", <<Kid("", 4), Kid("", 5), Kid("", 10)>>),
       Leaf("(", <<>>),
       Inner("call_expression", <<Kid("function", 6), Kid("arguments", 7)>>),
       Leaf("identifier", RequireText),
       Inner("arguments", <<Kid("", 8), Kid("", 9)>>),
       Leaf("(", <<>>),
       Leaf("string", Quoted("'", <<"d">>)),
       Leaf(")", <<>>) >>

\* #include <path>
IncludeOf(type, text) ==
    << Inner("preproc_include", <<Kid("", 2), Kid("path", 3)>>),
       Leaf("#include", <<>>),
       Leaf(type, text) >>

Statements ==
    { ImportOf("'", <<"a">>), ImportOf("\"", <<"a">>), ImportOf("'", <<"b">>),
      CallOf(RequireText, "'", <<"a">>), CallOf(<<"f", "o", "o">>, "'", <<"c">>),
      RequireSecond, RequireNested,
      IncludeOf("system_lib_string", <<"<", "a", ">">>),
      IncludeOf("string_literal", Quoted("\"", <<"b">>)),
      IncludeOf("identifier", <<"M">>) }

\* The nodes of a statement placed after off other nodes.
Shifted(stmt, off) ==
    [n \in 1..Len(stmt) |->
       [stmt[n] EXCEPT !.children = [q \in 1..Len(@) |-> Kid(@[q].field, @[q].node + off)]]]

RECURSIVE Joined(_, _)
Joined(stmts, n) ==
    IF n = 0 THEN <<>>
    ELSE LET before == Joined(stmts, n - 1)
         IN  before \o Shifted(stmts[n], 1 + Len(before))

RECURSIVE RootsOf(_, _)
RootsOf(stmts, n) ==
    IF n = 0 THEN <<>>
    ELSE Append(RootsOf(stmts, n - 1), Kid("", 2 + Len(Joined(stmts, n - 1))))

\* The tree of a program of the statements.
ProgramOf(stmts) ==
    <<Inner("program", RootsOf(stmts, Len(stmts)))>> \o Joined(stmts, Len(stmts))

Programs ==
    {ProgramOf(stmts) : stmts \in UNION {[1..n -> Statements] : n \in 0..MaxStatements}}

\* currentNode.childForFieldName(field): the node, 0 for null.
ChildForFieldName(t, n, field) ==
    LET at == {q \in 1..Len(t[n].children) : t[n].children[q].field = field}
    IN  IF at = {} THEN 0 ELSE t[n].children[CHOOSE q \in at : \A r \in at : q <= r].node

\* argsNode.children.find(child => child && child.type === 'string')
FirstString(t, n) ==
    LET at == {q \in 1..Len(t[n].children) : t[t[n].children[q].node].type = "string"}
    IN  IF at = {} THEN 0 ELSE t[n].children[CHOOSE q \in at : \A r \in at : q <= r].node

\* text.slice(1, -1)
Slice(text) == SubSeq(text, 2, Len(text) - 1)

StartsWith(text, c) == Len(text) >= 1 /\ text[1] = c

EndsWith(text, c) == Len(text) >= 1 /\ text[Len(text)] = c

AddedMutPush(deps, text) == Append(deps, text)

\* dependencies.add(text)
Added(deps, text) ==
    IF \E p \in 1..Len(deps) : deps[p] = text THEN deps ELSE Append(deps, text)

\* Lines 23-60: what visiting the node does to the set.
Visited(t, deps, n) ==
    IF t[n].type = "import_statement"
    THEN LET sourceNode == ChildForFieldName(t, n, "source")
         IN  IF sourceNode # 0 /\ t[sourceNode].type = "string"
             THEN Added(deps, Slice(t[sourceNode].text))
             ELSE deps
    ELSE IF t[n].type = "call_expression"
    THEN LET functionNode == ChildForFieldName(t, n, "function")
             argsNode     == ChildForFieldName(t, n, "arguments")
         IN  IF functionNode # 0 /\ t[functionNode].text = RequireText /\ argsNode # 0
                /\ FirstString(t, argsNode) # 0
             THEN Added(deps, Slice(t[FirstString(t, argsNode)].text))
             ELSE deps
    ELSE IF t[n].type = "preproc_include"
    THEN LET pathNode == ChildForFieldName(t, n, "path")
         IN  IF pathNode = 0 THEN deps
             ELSE IF StartsWith(t[pathNode].text, "\"") /\ EndsWith(t[pathNode].text, "\"")
             THEN Added(deps, Slice(t[pathNode].text))
             ELSE IF StartsWith(t[pathNode].text, "<") /\ EndsWith(t[pathNode].text, ">")
             THEN Added(deps, Slice(t[pathNode].text))
             ELSE Added(deps, t[pathNode].text)
    ELSE deps

\* The children of the node, first child first.
ChildNodes(t, n) == [q \in 1..Len(t[n].children) |-> t[n].children[q].node]

besidesDeps == <<layoutVars, fetchVars, buildVars, sceneVars, audioVars, sitterVars>>

\* Lines 21-69: traverse() visits the next node and goes on with its
\* children before the nodes that were waiting.
Traverse ==
    /\ walk # <<>>
    /\ dependencies' = Visited(ast, dependencies, Head(walk))
    /\ walk' = ChildNodes(ast, Head(walk)) \o Tail(walk)
    /\ UNCHANGED <<ast, result, besidesDeps>>

\* Line 72: return Array.from(dependencies)
Return ==
    /\ walk = <<>>
    /\ result = <<>>
    /\ result' = <<dependencies>>
    /\ UNCHANGED <<ast, walk, dependencies, besidesDeps>>

DepsInit ==
    /\ ast \in Programs
    /\ walk = <<1>>
    /\ dependencies = <<>>
    /\ result = <<>>
    /\ LayoutIdle /\ FetchIdle /\ BuildIdle /\ SceneIdle /\ AudioIdle /\ SitterIdle

DepsNext ==
    \/ Traverse
    \/ Return

DepsSpec == DepsInit /\ [][DepsNext]_vars

(***************************************************************************)
(* Vocabulary of the properties.                                           *)
(***************************************************************************)
RECURSIVE PreOrderOf(_, _)
RECURSIVE PreOrderAll(_, _, _)
\* The nodes of the subtree of n: n first, then its children's subtrees in
\* input order.
PreOrderOf(t, n) == <<n>> \o PreOrderAll(t, t[n].children, 1)
PreOrderAll(t, cs, j) ==
    IF j > Len(cs) THEN <<>> ELSE PreOrderOf(t, cs[j]) \o PreOrderAll(t, cs, j + 1)

PreOrder == PreOrderOf(tree, 1)
TotalNodes == Len(PreOrder)

\* The input parent of input node n (0 for the root).
ParentNode(n) ==
    IF \E m \in DOMAIN tree : \E j \in DOMAIN tree[m].children : tree[m].children[j] = n
    THEN CHOOSE m \in DOMAIN tree : \E j \in DOMAIN tree[m].children : tree[m].children[j] = n
    ELSE 0

\* The record created from input node n (0 when n was not admitted).
RecordOf(n) ==
    IF \E j \in DOMAIN visited : visited[j] = n
    THEN CHOOSE j \in DOMAIN visited : visited[j] = n
    ELSE 0

Done == pc = "done"

HasDot(s) == \E p \in DOMAIN s : s[p] = "."

\* clamp(loc * 0.5, 2, 100) in hundredths.
ClampHalfLoc(loc) ==
    IF loc * 50 < 200 THEN 200 ELSE IF loc * 50 > 10000 THEN 10000 ELSE loc * 50

(***************************************************************************)
(* C1: the layout returns exactly min(totalNodes, 400) records, for every  *)
(* tree and iteration count; the working list never exceeds the cap.       *)
(***************************************************************************)
C1_OutputLength ==
    /\ Len(nodes) <= NodeCap
    /\ Done => Len(output) = Min(TotalNodes, NodeCap)

C1_Witness == Done /\ TotalNodes > NodeCap /\ Len(output) = NodeCap

(***************************************************************************)
(* C2: the records are in depth-first pre-order of the input tree, and an  *)
(* oversize tree keeps exactly the first 400 nodes of that order.          *)
(***************************************************************************)
C2_PreOrderPrefix ==
    Done =>
        /\ visited = SubSeq(PreOrder, 1, Min(TotalNodes, NodeCap))
        /\ Len(output) = Len(visited)
        /\ \A j \in DOMAIN output :
              /\ output[j].type = tree[visited[j]].type
              /\ output[j].loc = LocOf(tree[visited[j]])

C2_Witness ==
    /\ Done
    /\ TotalNodes > NodeCap
    /\ \E j \in DOMAIN visited : visited[j] # j
    /\ \E n \in DOMAIN tree : n < NodeCap /\ RecordOf(n) = 0

(***************************************************************************)
(* C3: the ids of the records are pairwise distinct, the root's id is its  *)
(* name and every other id is the parent's id, "/" and the node's name.    *)
(***************************************************************************)
C3_IdsUniqueAndPathQualified ==
    Done =>
        /\ \A a, b \in DOMAIN output : a # b => output[a].id # output[b].id
        /\ \A j \in DOMAIN output :
              IF visited[j] = 1
              THEN output[j].id = tree[1].name
              ELSE output[j].id =
                     PathJoin(output[RecordOf(ParentNode(visited[j]))].id,
                              tree[visited[j]].name)

(***************************************************************************)
(* C4: a file's height is clamp(loc * 0.5, 2, 100) (a missing loc is 0), a *)
(* folder's is 1, in the working record from its creation on and in the    *)
(* output for every iteration count.                                       *)
(***************************************************************************)
C4_ExpectedHeight(n) ==
    IF n.type = "file" THEN ClampHalfLoc(IF n.loc = <<>> THEN 0 ELSE n.loc[1]) ELSE 100

C5_Footprint ==
    /\ \A j \in DOMAIN nodes :
          nodes[j].radius = IF tree[visited[j]].type = "file" THEN 500 ELSE 1000
    /\ Done => \A j \in DOMAIN output :
          /\ output[j].position[2] * 2 = output[j].size[2]
          /\ output[j].size[2] = nodes[j].targetHeight
          /\ IF tree[visited[j]].type = "file"
             THEN output[j].size[1] = 750 /\ output[j].size[3] = 750
             ELSE output[j].size = <<1500, 100, 1500>> /\ output[j].position[2] = 50

C5_Witness ==
    /\ Done
    /\ iterations >= 1
    /\ \E a, b \in DOMAIN output :
          /\ output[a].type = "file"
          /\ output[b].type = "folder"
          /\ output[a].position[1] # 0
          /\ output[b].position[1] # 0

(***************************************************************************)
(* C6: with iterations = 0 the root is at (0, 0) and every other record is *)
(* within 50 units of its parent's output position on the x and z axes.    *)
(***************************************************************************)
C6_ZeroIterationPlacement ==
    (Done /\ iterations = 0) =>
        \A j \in DOMAIN output :
            IF visited[j] = 1
            THEN output[j].position[1] = 0 /\ output[j].position[3] = 0
            ELSE LET q == output[RecordOf(ParentNode(visited[j]))].position
                 IN  /\ Abs(output[j].position[1] - q[1]) <= 5000
                     /\ Abs(output[j].position[3] - q[3]) <= 5000

(***************************************************************************)
(* C7: in every state of flattening and simulation every working record's  *)
(* position and velocity have vertical component 0; the exported position  *)
(* alone has a non-zero vertical coordinate.                               *)
(***************************************************************************)
C7_GroundPlane ==
    /\ \A j \in DOMAIN nodes : nodes[j].position[2] = 0 /\ nodes[j].velocity[2] = 0
    /\ \A j \in DOMAIN output : output[j].position[2] > 0

C7_Witness ==
    /\ pc = "collide"
    /\ k = 1
    /\ ci = 2
    /\ \E a, b \in DOMAIN nodes :
          /\ nodes[a].velocity # Zero3
          /\ nodes[a].position # Zero3
          /\ Length(Diff(nodes, a, b)) = MinDist(nodes, a, b)

(***************************************************************************)
(* C8: a folder's extension is "folder"; a file's is the part of its id    *)
(* after the last ".", and "txt" when the id has no ".".                   *)
(***************************************************************************)
C8_Extension ==
    Done =>
        \A j \in DOMAIN output :
            IF output[j].type = "folder"
            THEN output[j].extension = <<"f", "o", "l", "d", "e", "r">>
            ELSE IF HasDot(output[j].id)
                 THEN output[j].extension =
                        SubSeq(output[j].id, LastDot(output[j].id) + 1, Len(output[j].id))
                 ELSE output[j].extension = <<"t", "x", "t">>

(***************************************************************************)
(* C9: for a root folder with a single file child and iterations >= 1 the  *)
(* final horizontal distance of the two records is at least 5 + 10 +       *)
(* padding = 30 (here: at least 29, a unit of tolerance for the rounding   *)
(* of the fixed-point arithmetic).                                         *)
(***************************************************************************)
C9_TwoNodeSeparation ==
    ( /\ Done
      /\ iterations >= 1
      /\ Len(tree) = 2
      /\ tree[1].type = "folder"
      /\ tree[2].type = "file" )
    => Length(Diff(nodes, 1, 2)) >= 2900

(***************************************************************************)
(* C10: a single-node tree stays at (0, 0) with zero velocity through      *)
(* every iteration and yields exactly one record; a folder yields position *)
(* (0, 0.5, 0) and size (15, 1, 15).                                       *)
(***************************************************************************)
C10_SingleNode ==
    Len(tree) = 1 =>
        /\ \A j \in DOMAIN nodes : nodes[j].position = Zero3 /\ nodes[j].velocity = Zero3
        /\ pc \notin {"flatten"} => Len(nodes) = 1
        /\ Done =>
              /\ Len(output) = 1
              /\ output[1].position[1] = 0 /\ output[1].position[3] = 0
              /\ tree[1].type = "folder" =>
                    output[1].position = <<0, 50, 0>> /\ output[1].size = <<1500, 100, 1500>>

C10_Witness ==
    /\ Done
    /\ Len(tree) = 1
    /\ tree[1].type = "folder"
    /\ iterations = MaxIterations
    /\ i = iterations
    /\ output[1].position = <<0, 50, 0>>

(***************************************************************************)
(* C11: for every tree of at least five admitted nodes run with the        *)
(* default budget of 50 iterations, the average pairwise horizontal        *)
(* overlap max(0, r_i + r_j + padding - distance) of the final positions   *)
(* is strictly less than that of the initial placement, whatever the        *)
(* jitter.  Both averages are over the same pairs, so the sums are          *)
(* compared.                                                                *)
(***************************************************************************)
\* The records ns standing at the positions ps.
StandingAt(ns, ps) == [a \in 1..Len(ns) |-> [ns[a] EXCEPT !.position = ps[a]]]

Overlap(ns, a, b) == Max(0, MinDist(ns, a, b) - Length(Diff(ns, a, b)))

RECURSIVE OverlapFrom(_, _, _)
OverlapFrom(ns, a, b) ==
    IF a >= Len(ns) THEN 0
    ELSE IF b > Len(ns) THEN OverlapFrom(ns, a + 1, a + 2)
    ELSE Overlap(ns, a, b) + OverlapFrom(ns, a, b + 1)

\* The sum of the overlaps of all unordered pairs.
OverlapSum(ns) == OverlapFrom(ns, 1, 2)

C11_OverlapDecreases ==
    ( /\ Done
      /\ Len(nodes) >= 5
      /\ iterations = DefaultIterations )
    => OverlapSum(nodes) < OverlapSum(StandingAt(nodes, placed))

\* The two ways the overlap fails to decrease: it was zero from the start,
\* or it was positive and the run kept it.
C11_NoneToRemove ==
    ~( /\ Done
       /\ iterations = DefaultIterations
       /\ Len(nodes) = 5
       /\ OverlapSum(StandingAt(nodes, placed)) = 0 )

C11_OverlapKept ==
    ~( /\ Done
       /\ iterations = DefaultIterations
       /\ Len(nodes) = 5
       /\ OverlapSum(StandingAt(nodes, placed)) > 0
       /\ OverlapSum(nodes) >= OverlapSum(StandingAt(nodes, placed)) )

(***************************************************************************)
(* C12: called on an empty input tree (no root node), the layout raises no *)
(* error, does no simulation work and returns an empty sequence of         *)
(* records.                                                                *)
(***************************************************************************)
Threw == pc = "threw"

C12_EmptyInput ==
    Len(tree) = 0 =>
        /\ ~Threw
        /\ pc \notin {"forces", "collide"}
        /\ Done => output = <<>>

(***************************************************************************)
(* C13: the adjacency matches the input tree: the root record has no       *)
(* parentId; every other record's parentId is the id of the record made    *)
(* from its input parent, which precedes it; each record's childrenIds is  *)
(* the list of the ids of its admitted children in input order; and every  *)
(* non-root id appears in the childrenIds of exactly one record.           *)
(***************************************************************************)
\* The ids of the admitted children of the input node of record j, in input
\* order.
AdmittedChildIds(j) ==
    LET adm == SelectSeq(tree[visited[j]].children, LAMBDA c : RecordOf(c) # 0)
    IN  [q \in 1..Len(adm) |-> nodes[RecordOf(adm[q])].id]

\* The records whose childrenIds hold the id.
Holders(id) ==
    {p \in 1..Len(nodes) : \E q \in DOMAIN nodes[p].childrenIds : nodes[p].childrenIds[q] = id}

Adjacent ==
    /\ output[1].parentId = Null
    /\ \A j \in 2..Len(output) :
         LET p == RecordOf(ParentNode(visited[j]))
         IN  /\ p # 0
             /\ p < j
             /\ output[j].parentId = output[p].id
             /\ Holders(nodes[j].id) = {p}
    /\ \A j \in 1..Len(nodes) : nodes[j].childrenIds = AdmittedChildIds(j)

C13_Adjacency == Done => Adjacent

\* The same holds of the trees whose records get pairwise distinct,
\* non-empty ids.
IdsDistinct ==
    /\ \A a, b \in 1..Len(nodes) : a # b => nodes[a].id # nodes[b].id
    /\ \A a \in 1..Len(nodes) : nodes[a].id # <<>>

C13_AdjacencyOfDistinctIds == (Done /\ IdsDistinct) => Adjacent

(***************************************************************************)
(* C14: two runs over the same input tree produce the same sequence of     *)
(* ids, types, parentIds, sizes, loc values and extensions, whatever the   *)
(* random source returns and whatever the iteration counts; only the       *)
(* horizontal positions and lastModified may differ.  The labels of every  *)
(* run equal LabelsOf(tree), which is a function of the tree alone.        *)
(***************************************************************************)
\* The id of input node n, from the names on its path.
RECURSIVE IdOf(_)
IdOf(n) ==
    IF ParentNode(n) = 0 THEN NodeId(Null, tree[n].name)
    ELSE NodeId(IdOf(ParentNode(n)), tree[n].name)

LabelOf(n) ==
    [ id        |-> IdOf(n),
      type      |-> tree[n].type,
      parentId  |-> IF ParentNode(n) = 0 THEN Null ELSE ParentOut(IdOf(ParentNode(n))),
      size      |-> SizeOf([radius |-> RadiusOf(tree[n].type),
                            targetHeight |-> HeightOf(tree[n].type, LocOf(tree[n]))]),
      loc       |-> LocOf(tree[n]),
      extension |-> ExtensionOf(tree[n].type, IdOf(n)) ]

LabelsOf == [j \in 1..Min(TotalNodes, NodeCap) |-> LabelOf(PreOrder[j])]

Labels(out) ==
    [j \in 1..Len(out) |->
        [ id |-> out[j].id, type |-> out[j].type, parentId |-> out[j].parentId,
          size |-> out[j].size, loc |-> out[j].loc, extension |-> out[j].extension ]]

C14_LabelsReproducible == Done => Labels(output) = LabelsOf

C14_Witness ==
    /\ Done
    /\ iterations >= 1
    /\ Len(output) >= 3
    /\ \E j \in 1..Len(nodes) : nodes[j].position # placed[j]
    /\ \E j \in 1..Len(output) : output[j].lastModified # output[1].lastModified
    /\ Labels(output) = LabelsOf

(***************************************************************************)
(* C15: generateCityLayout leaves the input tree unchanged (no node's      *)
(* name, type, children or loc is modified, none is added or removed), and *)
(* the working records of one invocation are never read or written by      *)
(* another: an invocation starts from an empty record list.                *)
(***************************************************************************)
C15_Frame ==
    [][ /\ tree' = tree
        /\ call' # call => nodes' = <<>> /\ output' = <<>> ]_vars

C15_Witness ==
    /\ call = 2
    /\ Done
    /\ iterations >= 1
    /\ Len(tree) >= 4
    /\ Len(output) = Len(tree)
    /\ \E n \in DOMAIN tree : tree[n].loc = <<>>

(***************************************************************************)
(* C16: for every finite input tree and every iteration count >= 0 the     *)
(* layout terminates after executing the outer loop exactly `iterations`   *)
(* times; it never stops early or late because of the overlap that is      *)
(* left.  i counts the completed iterations: it never passes `iterations`, *)
(* the body runs only below it, the export is reached only at it, and      *)
(* every step inside the loop moves strictly forward.                      *)
(***************************************************************************)
\* The steps one iteration takes at most, and the place of a state in the
\* loop, counted in steps.
BodySteps == (Len(nodes) + 2) + (CollisionPasses + 1) * (Len(nodes) * Len(nodes) + 2)

InLoop(p) == p \in {"loop", "forces", "collide"}

Place(p, ii, f, kk, a, b) ==
    ii * BodySteps +
    ( IF p = "forces" THEN f
      ELSE IF p = "collide"
           THEN (Len(nodes) + 2) + kk * (Len(nodes) * Len(nodes) + 2)
                    + (a - 1) * Len(nodes) + b
           ELSE 0 )

C16_LoopCount ==
    [][ /\ i' <= iterations
        /\ pc' \in {"forces", "collide"} => i' < iterations
        /\ pc' \in {"export", "done"} => i' = iterations
        /\ (InLoop(pc) /\ InLoop(pc')) =>
              /\ Place(pc', i', fi', k', ci', cj') > Place(pc, i, fi, k, ci, cj)
              /\ Place(pc', i', fi', k', ci', cj') <= iterations * BodySteps ]_vars

C16_Witness ==
    /\ Done
    /\ iterations = DefaultIterations
    /\ i = DefaultIterations
    /\ Len(nodes) = 5
    /\ OverlapSum(StandingAt(nodes, placed)) = 0
    /\ OverlapSum(nodes) = 0

(***************************************************************************)
(* C17: the integration step carries (v + F * 0.1) * 0.9 into the next     *)
(* iteration as the velocity and advances the position by that new         *)
(* velocity times 0.1; the only per-step attenuation of the stored         *)
(* velocity is the damping 0.9.  At the step, nodes[j].velocity already    *)
(* holds v + F * 0.1.                                                      *)
(***************************************************************************)
IntegrateStep == pc = "forces" /\ pc' = "collide"

C17_VelocityCarried ==
    [][ IntegrateStep =>
          \A j \in 1..Len(nodes) :
             LET damped == VScale(nodes[j].velocity, 9, 10)
             IN  /\ nodes'[j].velocity = damped
                 /\ nodes'[j].position =
                        Flat(VAdd(nodes[j].position, VScale(VScale(damped, 1, 10), 1, 100))) ]_vars

\* What the step does store: the damped velocity times the time step.
C17_VelocityStored ==
    [][ IntegrateStep =>
          \A j \in 1..Len(nodes) :
             LET damped == VScale(nodes[j].velocity, 9, 10)
             IN  /\ nodes'[j].velocity = VScale(damped, 1, 10)
                 /\ nodes'[j].position =
                        Flat(VAdd(nodes[j].position, VScale(VScale(damped, 1, 10), 1, 100))) ]_vars

(***************************************************************************)
(* C18: whenever the collision resolver examines a pair at distance        *)
(* d < minDist, d = 0 included, it moves each of the two by                *)
(* (minDist - d) / 2 in opposite directions, after which their distance is *)
(* minDist and their midpoint is where it was; a pair with d >= minDist is *)
(* left untouched.  Lengths are compared to within half a unit, the        *)
(* resolution of the directions.                                           *)
(***************************************************************************)
CollideStep == pc = "collide" /\ pc' = "collide" /\ k' = k /\ <<ci', cj'>> # <<ci, cj>>

Near(x, y) == Abs(x - y) <= 50

\* The pair (ci, cj) has been pushed apart to minDist about its midpoint.
Separated ==
    LET d == Length(Diff(nodes, ci, cj))
        m == MinDist(nodes, ci, cj)
    IN  /\ Near(Length(Flat(VSub(nodes'[ci].position, nodes[ci].position))), (m - d) \div 2)
        /\ Near(Length(Flat(VSub(nodes'[cj].position, nodes[cj].position))), (m - d) \div 2)
        /\ VAdd(nodes'[ci].position, nodes'[cj].position)
              = VAdd(nodes[ci].position, nodes[cj].position)
        /\ Near(Length(Diff(nodes', ci, cj)), m)

C18_PairSeparated ==
    [][ (CollideStep /\ Examines(nodes, ci, cj)) =>
          IF Length(Diff(nodes, ci, cj)) < MinDist(nodes, ci, cj)
          THEN Separated
          ELSE nodes' = nodes ]_vars

\* The same of the pairs that do not coincide.
C18_DistinctPairSeparated ==
    [][ (CollideStep /\ Examines(nodes, ci, cj) /\ LengthSq(Diff(nodes, ci, cj)) > 0) =>
          IF Length(Diff(nodes, ci, cj)) < MinDist(nodes, ci, cj)
          THEN Separated
          ELSE nodes' = nodes ]_vars

(***************************************************************************)
(* C19: each outer iteration runs exactly two collision passes, and within *)
(* one pass each unordered pair of records is examined (and corrected if   *)
(* overlapping) exactly once.                                              *)
(***************************************************************************)
\* A pass has visited its last pair and has not yet been closed.
PassOver == pc = "collide" /\ k < CollisionPasses /\ ci > Len(nodes)

\* How often the pass under way has examined node a against other b.
Examinations(a, b) == Cardinality({q \in DOMAIN examined : examined[q] = <<a, b>>})

TwoPasses ==
    /\ pc = "collide" => k <= 2
    /\ (pc = "loop" /\ i > 0) => k = 2

C19_UnorderedPairsOnce ==
    /\ TwoPasses
    /\ PassOver =>
          \A a, b \in 1..Len(nodes) :
              a < b => Examinations(a, b) + Examinations(b, a) = 1

\* As amended: within one pass every ordered pair (node, other) of records
\* with different ids is examined exactly once, so every unordered pair of
\* such records twice, once from either side; records with equal ids are
\* not examined against each other; and every iteration runs exactly two
\* passes.
C19_OrderedPairsOnce ==
    /\ TwoPasses
    /\ PassOver =>
          \A a, b \in 1..Len(nodes) :
              Examinations(a, b) = IF nodes[a].id # nodes[b].id THEN 1 ELSE 0

C19_Witness ==
    /\ PassOver
    /\ k = 1
    /\ Len(nodes) >= 3
    /\ Examinations(1, 2) = 1
    /\ Examinations(2, 1) = 1
    /\ Len(examined) = Len(nodes) * (Len(nodes) - 1)

(***************************************************************************)
(* C20: in every iteration exactly the root record is attracted toward the *)
(* origin, by attractionStrength * (origin - position), and every other    *)
(* record toward the current position of its own parent, by                *)
(* attractionStrength * (parent position - position); no non-root record   *)
(* is attracted to the origin and none to a record other than its parent.  *)
(***************************************************************************)
\* Where record a is to be drawn: the origin for the root, the record of
\* its input parent otherwise.
Anchor(a) ==
    IF ParentNode(visited[a]) = 0 THEN Zero3
    ELSE nodes[RecordOf(ParentNode(visited[a]))].position

C20_AttractionTargets ==
    pc = "forces" =>
        \A a \in 1..Len(nodes) :
            Attraction(nodes, a) = Attract(Len(nodes), Flat(VSub(Anchor(a), nodes[a].position)))

\* The same holds of the trees whose records get pairwise distinct,
\* non-empty ids.
C20_AttractionOfDistinctIds ==
    (pc = "forces" /\ IdsDistinct) =>
        \A a \in 1..Len(nodes) :
            Attraction(nodes, a) = Attract(Len(nodes), Flat(VSub(Anchor(a), nodes[a].position)))

(***************************************************************************)
(* C21: for every ordered pair of distinct records the repulsion           *)
(* contribution to the first is zero when their squared horizontal         *)
(* distance is >= 4 * minDist^2, and otherwise a vector of magnitude       *)
(* repulsionStrength / (distSq + 0.1) along a unit horizontal direction    *)
(* (the separation, or a random unit direction when distSq < 0.1); hence   *)
(* it is bounded by repulsionStrength / 0.1 at every distance, zero        *)
(* included.  A contribution is a strength times a direction; the          *)
(* direction is unit to within two hundredths.                             *)
(***************************************************************************)
InRange(ns, a, b) ==
    LengthSq(Diff(ns, a, b)) < MinDist(ns, a, b) * MinDist(ns, a, b) * 4

\* The direction of a contribution c of strength s.
DirectionOf(c, s) == VScale(c, 1, s)

UnitHorizontal(u) == u[2] = 0 /\ Abs(Length(u) - 100) <= 2

\* The contribution of b to a under the draw d is as the claim says.
AsClaimed(ns, a, b, d) ==
    LET c == RepulsionFrom(ns, a, b, d)
        s == Strength(Len(ns), LengthSq(Diff(ns, a, b)))
    IN  IF ~InRange(ns, a, b) THEN c = Zero3
        ELSE /\ s > 0
             /\ s <= Strength(Len(ns), 0)
             /\ c = VScale(DirectionOf(c, s), s, 1)
             /\ UnitHorizontal(DirectionOf(c, s))
             /\ ~Degenerate(LengthSq(Diff(ns, a, b)))
                   => DirectionOf(c, s) = Normalize(Diff(ns, a, b))

C21_RepulsionContribution ==
    pc = "forces" =>
        \A a, b \in 1..Len(nodes) :
            a # b => \A d \in rand \X rand : AsClaimed(nodes, a, b, d)

\* The same of the records with different ids, under every draw but
\* (0.5, 0.5).
C21_ContributionOfProperDraws ==
    pc = "forces" =>
        \A a, b \in 1..Len(nodes) :
            (a # b /\ nodes[a].id # nodes[b].id)
                => \A d \in (rand \X rand) \ {<<500, 500>>} : AsClaimed(nodes, a, b, d)

(***************************************************************************)
(* C22: within an iteration the phases are strictly ordered: the forces on *)
(* all records are computed from the positions as they stood at the start  *)
(* of the iteration (no position changes until every velocity has been     *)
(* updated), then all positions are integrated, and only then do the       *)
(* collision passes run; a collision correction changes positions only,    *)
(* never velocities.                                                       *)
(***************************************************************************)
SamePositions == \A j \in 1..Len(nodes) : nodes'[j].position = nodes[j].position

SameVelocities == \A j \in 1..Len(nodes) : nodes'[j].velocity = nodes[j].velocity

C22_PhaseOrder ==
    [][ /\ InLoop(pc) => Len(nodes') = Len(nodes)
        /\ (pc = "forces" /\ pc' = "forces") =>
              /\ SamePositions
              /\ fi' = fi + 1
              /\ \A j \in 1..Len(nodes) : j # fi => nodes'[j] = nodes[j]
        /\ (pc = "forces" /\ pc' # "forces") => pc' = "collide" /\ fi > Len(nodes)
        /\ (pc # "forces" /\ pc' = "forces") => pc = "loop" /\ fi' = 1
        /\ (pc # "collide" /\ pc' = "collide") => pc = "forces" /\ k' = 0
        /\ pc = "collide" => pc' \in {"collide", "loop"} /\ SameVelocities
        /\ (pc = "collide" /\ pc' = "loop") => k = CollisionPasses ]_vars

C22_Witness ==
    /\ pc = "collide"
    /\ i = 1
    /\ k = 1
    /\ ci > Len(nodes)
    /\ Len(nodes) >= 2
    /\ \E j \in 1..Len(nodes) : nodes[j].velocity # Zero3
    /\ \E j \in 1..Len(nodes) : nodes[j].position # placed[j]

(***************************************************************************)
(* Vocabulary of the properties of fetchRepo.                              *)
(***************************************************************************)
Finished(c) == fetches[c].pc = "done"

AllFinished == \A c \in 1..Len(fetches) : Finished(c)

KeyOfUrl(repoUrl) == CacheKey(OwnerOf(repoUrl), RepoOf(repoUrl))

(***************************************************************************)
(* C23: a fetchRepo call that finishes, by whichever path (invalid URL,    *)
(* cache hit, non-OK response to either request, thrown exception,         *)
(* success), sets loading to false and exactly one of data and error to a  *)
(* non-null value; a 403 or 429 response to either request gives the error *)
(* "API Rate Limit Exceeded. Please provide a Token."; a call that is the  *)
(* only one leaves the hook in the state it set; and in every reachable    *)
(* state a non-null error goes with a null data.                           *)
(***************************************************************************)
C23_FetchOutcome ==
    /\ \A c \in 1..Len(fetches) : Finished(c) =>
         LET s == fetches[c].settled[1]
         IN  /\ ~s.loading
             /\ (s.data = <<>>) # (s.error = <<>>)
             /\ fetches[c].outcome \in {"hit", "ok"} <=> s.data # <<>>
             /\ fetches[c].outcome = "invalid" => s.error = <<InvalidUrlMessage>>
             /\ (fetches[c].outcome \in {"repo", "tree"} /\ fetches[c].status \in {403, 429})
                   => s.error = <<RateLimitMessage>>
             /\ Len(fetches) = 1 => state = s
    /\ state.error # <<>> => state.data = <<>>

\* A call loaded a tree, and the next one was answered 429 by the tree request.
C23_Witness ==
    /\ Len(fetches) = 2
    /\ fetches[1].outcome \in {"hit", "ok"}
    /\ fetches[2].outcome = "tree" /\ fetches[2].status = 429
    /\ state = [loading |-> FALSE, error |-> <<RateLimitMessage>>, data |-> <<>>]

(***************************************************************************)
(* C24: a call looks its key repo-city-v1-<owner>-<repo> up in the cache   *)
(* before it issues a network request; a cache hit ends the call without a *)
(* network request and with the cached tree as data; the cache is written  *)
(* only by a call whose two requests both succeeded and whose tree is      *)
(* built, under that call's key and with that tree, so a failed or invalid *)
(* call never writes it.                                                   *)
(***************************************************************************)
C24_CacheDiscipline ==
    [][ /\ \A c \in 1..Len(fetches') :
             /\ \E n \in 0..4 : fetches'[c].log = SubSeq(<<"get", "repo", "tree", "set">>, 1, n)
             /\ fetches'[c].outcome = "invalid" <=> fetches'[c].log = <<>>
             /\ fetches'[c].outcome = "hit" => fetches'[c].log = <<"get">>
             /\ (c <= Len(fetches) /\ ~Finished(c) /\ fetches'[c].outcome = "hit") =>
                   /\ cache[KeyOfUrl(fetches[c].url)] # <<>>
                   /\ state'.data = cache[KeyOfUrl(fetches[c].url)]
        /\ cache' # cache =>
             \E c \in 1..Len(fetches) :
                /\ fetches[c].log = <<"get", "repo", "tree", "set">>
                /\ fetches[c].status = 200
                /\ fetches[c].tree # <<>>
                /\ fetches[c].tree[1] \in TreesOf(RepoOf(fetches[c].url))
                /\ ~Finished(c) /\ fetches'[c].outcome = "ok"
                /\ cache' = [cache EXCEPT ![KeyOfUrl(fetches[c].url)] = fetches[c].tree]
      ]_vars

\* One call was answered from the cache, another fetched, built and stored
\* its tree.
C24_Witness ==
    /\ \E c \in 1..Len(fetches) :
         fetches[c].outcome = "hit" /\ fetches[c].log = <<"get">>
    /\ \E c \in 1..Len(fetches) :
         /\ fetches[c].outcome = "ok"
         /\ cache[KeyOfUrl(fetches[c].url)] = fetches[c].tree

(***************************************************************************)
(* C25: when calls overlap, the hook state follows the call started last:  *)
(* loading is true while that call is in flight, and once every call has   *)
(* finished data and error are the ones that call set.                     *)
(***************************************************************************)
C25_LatestCallWins ==
    Len(fetches) >= 1 =>
       /\ ~Finished(Len(fetches)) => state.loading
       /\ AllFinished =>
            /\ state.data = fetches[Len(fetches)].settled[1].data
            /\ state.error = fetches[Len(fetches)].settled[1].error

\* What the code guarantees instead: the state is the one set by some call
\* that finished, once none is in flight.
C25_SomeCallWins ==
    (Len(fetches) >= 1 /\ AllFinished) =>
       \E c \in 1..Len(fetches) : state = fetches[c].settled[1]

(***************************************************************************)
(* Vocabulary of the properties of the built tree.                         *)
(***************************************************************************)
ParentIn(t, n) ==
    CHOOSE p \in 1..Len(t) : \E q \in 1..Len(t[p].children) : t[p].children[q] = n

\* The names on the way from below the root to the node.
RECURSIVE ChainOf(_, _)
ChainOf(t, n) ==
    IF n = 1 THEN <<>> ELSE Append(ChainOf(t, ParentIn(t, n)), t[n].name)

\* Every node but the root is the child of exactly one node, at one place.
IsTree(t) ==
    \A n \in 2..Len(t) :
       Cardinality({pq \in (1..Len(t)) \X (1..Len(t)) :
                       /\ pq[2] <= Len(t[pq[1]].children)
                       /\ t[pq[1]].children[pq[2]] = n}) = 1

FoldersAbove(t, n) ==
    \A p \in 1..Len(t) :
       (\E q \in 1..Len(t[p].children) : t[p].children[q] = n) => t[p].type = "folder"

\* What a set of entries asks for: a folder for every proper prefix of a
\* path and for every tree entry, a file for every blob.
Prefixes(parts) == {SubSeq(parts, 1, n) : n \in 1..(Len(parts) - 1)}

Asked(entries) ==
    UNION { {<<p, "folder">> : p \in Prefixes(Split(e.path))}
            \cup (IF e.type = "blob" THEN {<<Split(e.path), "file">>}
                  ELSE IF e.type = "tree" THEN {<<Split(e.path), "folder">>}
                  ELSE {}) : e \in entries }

Handled == {listing[n] : n \in 1..item}

(***************************************************************************)
(* C26: the tree built from a listing holds, for every listed blob         *)
(* p1/.../pk/name, exactly one file node named name under the chain of     *)
(* folders p1, ..., pk below the root; no two folder children of a node    *)
(* share a name; and the nodes of the tree are those the set of entries    *)
(* asks for, each once, in whichever order the entries are listed.         *)
(***************************************************************************)
C26_TreeOfListing ==
    /\ root[1].name = <<"r">> /\ root[1].type = "folder"
    /\ IsTree(root)
    /\ \A n \in 2..Len(root) : FoldersAbove(root, n)
    /\ \A e \in Handled : e.type = "blob" =>
          Cardinality({n \in 2..Len(root) :
                          root[n].type = "file" /\ ChainOf(root, n) = Split(e.path)}) = 1
    /\ \A p \in 1..Len(root) : \A a, b \in 1..Len(root[p].children) :
          (/\ a # b
           /\ root[root[p].children[a]].type = "folder"
           /\ root[root[p].children[b]].type = "folder")
             => root[root[p].children[a]].name # root[root[p].children[b]].name
    /\ {<<ChainOf(root, n), root[n].type>> : n \in 2..Len(root)} = Asked(Handled)
    /\ Len(root) = 1 + Cardinality(Asked(Handled))
    /\ item = Len(listing) => root = Transformed(<<"r">>, listing, Len(listing))

\* A blob two folders down is listed before the folders it lies in.
C26_Witness ==
    /\ item = 3
    /\ listing[1].path = <<"d", "/", "e", "/", "a">>
    /\ listing[2].path = <<"d", "/", "e">>
    /\ listing[3].path = <<"d">>
    /\ Len(root) = 4

(***************************************************************************)
(* Vocabulary of the properties of CityScene.                              *)
(***************************************************************************)
\* The text of the selected node once none of its fetches is pending: its
\* snippet (given or stored from a fetch), an empty fetched text, or the
\* placeholder of a node without snippet and url.
ContentOf(n) ==
    IF layout[n].codeSnippet # "" THEN layout[n].codeSnippet
    ELSE IF layout[n].url THEN ""
    ELSE NoContentText

(***************************************************************************)
(* C27: whenever a node is selected and no fetch of its content is         *)
(* pending, the hologram shows that node's content (its snippet, its       *)
(* fetched content or its placeholder), never that of a node selected      *)
(* before, however selections and fetch completions interleave.            *)
(***************************************************************************)
C27_HologramOfSelected ==
    (selectedNode # 0 /\ pending[selectedNode] = 0) =>
       hologramCode = ContentOf(selectedNode)

\* What holds instead: the hologram shows the text set by the step that ran
\* last, the effect of a selection or the completion of a fetch.
C27_HologramOfLastStep ==
    [][ /\ selectedNode' # selectedNode /\ selectedNode' # 0
             => hologramCode' = SetByEffect(selectedNode')
        /\ \A n \in 1..3 : pending'[n] < pending[n]
             => hologramCode' = layout'[n].codeSnippet
      ]_vars

(***************************************************************************)
(* C28: however initializeAudio calls follow or overlap each other, the    *)
(* hover, click and drone synths are created at most once and the drone    *)
(* note is started at most once; playHover and playClick trigger no sound  *)
(* while initialization has not completed.                                 *)
(***************************************************************************)
C28_InitializedOnce ==
    /\ synths.hover <= 1 /\ synths.click <= 1 /\ synths.drone <= 1
    /\ synths.attacks <= 1
    /\ sounds # <<>> => initialized

\* What holds: a call made after initialization completed creates nothing,
\* and no sound is triggered before it completed.
C28_GuardedAfterCompletion ==
    [][ /\ (initialized /\ Len(inits') > Len(inits)) => inits'[Len(inits')] = "returned"
        /\ synths' # synths => \E c \in 1..Len(inits) : inits[c] = "await" /\ inits'[c] = "done"
        /\ sounds' # sounds => initialized /\ synths.hover > 0
      ]_vars

(***************************************************************************)
(* C29: whenever loading is false, exactly one of parser and error is      *)
(* non-null, and a non-null parser is the one loaded for the current       *)
(* languagePath, also after languagePath changed and after loads for       *)
(* different paths completed in any order.                                 *)
(***************************************************************************)
C29_ParserOfCurrentPath ==
    ~loading =>
       /\ (parser = <<>>) # (error = <<>>)
       /\ parser # <<>> => parser = <<languagePath>>

\* What holds: as long as the path has not changed, the claim's condition;
\* and always, some run has finished when loading is false, the parser is
\* that of a run that succeeded and the error that of a run that was caught.
C29_FirstLoadOnly ==
    /\ (Len(loads) = 1 /\ ~loading) =>
          /\ (parser = <<>>) # (error = <<>>)
          /\ parser # <<>> => parser = <<languagePath>>
    /\ ~loading <=> \E c \in 1..Len(loads) : loads[c].pc # "run"
    /\ parser # <<>> => \E c \in 1..Len(loads) : loads[c] = [path |-> parser[1], pc |-> "ok"]
    /\ error # <<>> => \E c \in 1..Len(loads) : loads[c] = [path |-> error[1], pc |-> "caught"]

(***************************************************************************)
(* Vocabulary of the properties of extractDependencies.                    *)
(***************************************************************************)
\* The nodes of the tree below and including n, in pre-order.
RECURSIVE NodesFrom(_, _)
RECURSIVE NodesOfKids(_, _, _)
NodesFrom(t, n) == <<n>> \o NodesOfKids(t, n, 1)

NodesOfKids(t, n, q) ==
    IF q > Len(t[n].children) THEN <<>>
    ELSE NodesFrom(t, t[n].children[q].node) \o NodesOfKids(t, n, q + 1)

\* A text without the quotes or angle brackets around it.
Unquoted(text) ==
    IF /\ Len(text) >= 2
       /\ <<text[1], text[Len(text)]>> \in {<<"'", "'">>, <<"\"", "\"">>, <<"<", ">">>}
    THEN SubSeq(text, 2, Len(text) - 1)
    ELSE text

KidsNamed(t, n, field) == {kid \in 1..Len(t[n].children) : t[n].children[kid].field = field}

StringKids(t, n) == {kid \in 1..Len(t[n].children) : t[t[n].children[kid].node].type = "string"}

\* The dependency path the node states, <<>> if it states none: the source
\* of an import statement, the first string argument of a require call, the
\* path of an #include.
DependencyAt(t, n) ==
    IF t[n].type = "import_statement"
    THEN {<<Unquoted(t[t[n].children[kid].node].text)>> : kid \in KidsNamed(t, n, "source")}
    ELSE IF t[n].type = "preproc_include"
    THEN {<<Unquoted(t[t[n].children[kid].node].text)>> : kid \in KidsNamed(t, n, "path")}
    ELSE IF /\ t[n].type = "call_expression"
            /\ \E kid \in KidsNamed(t, n, "function") :
                  t[t[n].children[kid].node].text = RequireText
    THEN UNION {LET args == t[n].children[kid].node
                IN  {<<Unquoted(t[t[args].children[s].node].text)>> :
                        s \in {s1 \in StringKids(t, args) :
                                  \A s2 \in StringKids(t, args) : s1 <= s2}} :
                kid \in KidsNamed(t, n, "arguments")}
    ELSE {}

\* The places of the pre-order at which the path is stated.
StatedAt(path) ==
    {p \in 1..Len(NodesFrom(ast, 1)) : <<path>> \in DependencyAt(ast, NodesFrom(ast, 1)[p])}

Stated == UNION {DependencyAt(ast, n) : n \in 1..Len(ast)}

(***************************************************************************)
(* C30: the array returned holds every dependency path stated in the tree  *)
(* (sources of import statements, first string arguments of require calls, *)
(* paths of #include), without the quotes or angle brackets around it,     *)
(* exactly once, in the order in which the paths are first stated in a     *)
(* pre-order traversal.                                                    *)
(***************************************************************************)
C30_DependenciesOnceInOrder ==
    result # <<>> =>
       LET r == result[1]
       IN  /\ \A a, b \in 1..Len(r) : a # b => r[a] # r[b]
           /\ {<<r[a]>> : a \in 1..Len(r)} = Stated
           /\ \A a, b \in 1..Len(r) : a < b =>
                 \E p \in StatedAt(r[a]) : \A q \in StatedAt(r[b]) : p < q

\* #include <a>, import from 'b' and require('a') give a, b.
C30_Witness ==
    /\ ast = ProgramOf(<<IncludeOf("system_lib_string", <<"<", "a", ">">>),
                         ImportOf("'", <<"b">>),
                         CallOf(RequireText, "'", <<"a">>)>>)
    /\ result = << << <<"a">>, <<"b">> >> >>

====
